---- MODULE Spec2Model ----
(***************************************************************************)
(* RaspiNukiBridge: the BLE task queue (TaskQueue), the adapter arbitration *)
(* of NukiManager and the per-device session (Nuki) of src/nuki.py, as a    *)
(* state machine.  Every coroutine is cut at its suspension points (await). *)
(***************************************************************************)
EXTENDS Integers, Sequences, FiniteSets, TLC

\* ------------------------------------------------------------------ bounds
\* Total number of add_task calls in one behaviour (task ids are 1..MaxTasks).
MaxTasks == 3

\* Number of operations (update_state, lock, ...) clients call in one behaviour.
MaxOps == 1

\* How often the lock's current_update_count changes in one behaviour.
MaxCount == 1

\* Number of reset_opener_state tasks of a device asleep at the same time.
MaxResets == 2

\* Total number of write tasks in a behaviour with a pairing (one pairing
\* exchange takes five frames).
MaxFrames == 5

\* The time that passes in one behaviour, in half seconds.
MaxTime == 4

\* Longest payload handed to the framing, in bytes.
MaxLen == 3

\* The time the web server's clock covers, in seconds.
MaxClock == 120

\* ------------------------------------------------------- program constants
\* Nuki.retry, the number of connect+write attempts of _send_data.
retry == 3

\* ATTEMPTS of NukiManager.start_scanning.
ATTEMPTS == 8

\* The age in seconds beyond which a ctoken is purged and no more accepted.
TOKEN_AGE == 60

\* The registered devices (NukiManager._devices), by address.
Devices == {"A", "B"}
\* The worker coroutines that TaskQueue.start could create.
WorkerIds == {1, 2}
\* DeviceType, as Nuki.connect detects it from the GATT services of each device.
DeviceKind == [d \in Devices |-> IF d = "A" THEN "SMARTLOCK_1_2" ELSE "OPENER"]
\* NukiAction members used as lock actions.
NukiAction == {"UNLOCK", "LOCK", "UNLATCH"}
\* Return values and exceptions of a coroutine handed to add_task.
Values == {"v1", "v2"}
Errors == {"e1"}

VARIABLES
    hasQueue,        \* TaskQueue._queue is not None
    queue,           \* TaskQueue._queue: the ids of the queued wrapper tasks
    scanning,        \* TaskQueue._scanning
    adapterScanning, \* the BleakScanner is really scanning
    scannerFaulty,   \* the adapter is one whose scanner start/stop can fail
    workerPc,        \* position of each worker coroutine ("none": not created)
    workerTask,      \* the task a worker dequeued (0: none)
    workerTry,       \* attempt counter i of the _send_data retry loop
    nextTask,        \* the id the next add_task gives its task
    tasks,           \* the tasks given to add_task whose future is still of use
    lastStarted,     \* id of the task the worker began most recently
    begun,           \* number of operations clients have called on the devices
    connected,       \* Nuki._client.is_connected, per device
    orphaned,        \* a connection left open on a replaced client handle
    calls,           \* the coroutines awaiting a future (callers of add_task)
    lastReturn,      \* how the coroutine that resumed most recently ended
    last_state,      \* Nuki.last_state, per device
    config,          \* Nuki.config, per device
    challenge,       \* Nuki._challenge_command, per device
    device_type,     \* Nuki._device_type, per device
    callback,        \* NukiManager._newstate_callback is set
    lastSeen,        \* what the observer saw when last invoked, per device
    replies,         \* notifications the lock has sent and the bridge not yet handled
    lockCount,       \* the lock's own current_update_count
    lockState,       \* the lock's own lock state
    outstanding,     \* a request was written and no notification handled since
    timedOut,        \* command_timeout elapsed on an outstanding request
    resets,          \* reset_opener_state tasks created and still asleep
    auth_id,         \* Nuki.auth_id
    nuki_public_key, \* Nuki.nuki_public_key
    shared_key,      \* Nuki._shared_key, "none" while the attribute is not set
    pairing_callback,\* Nuki._pairing_callback is set
    paired,          \* how often the pairing callback was called, per device
    exited,          \* the process has called exit(0)
    now,             \* time.time(), in half seconds
    last_ibeacon,    \* Nuki._last_ibeacon, per device (Never: None)
    lastAdvert,      \* the previous qualifying advertisement of each device
    startOutcomes,   \* what BleakScanner.start() does on each call of one start_scanning
    attempt,         \* the loop variable i of start_scanning (0: before the loop)
    scanResult,      \* how start_scanning ended ("none": it has not)
    plain,           \* the command code and payload handed to the framing
    wire,            \* the frame on a characteristic, as bytes, and which one
    parsed,          \* what the handler's decoding of the frame gave
    critical_battery_state, \* last_state["critical_battery_state"] of one device
    battery,         \* what the three battery properties gave for it
    errorReported,   \* an ERROR_REPORT was handled since a client last began an operation, per device
    lastStop,        \* how the last call of stop_scanning ended
    entryPoint,      \* the way the program was started, once it is known
    utcnow,          \* datetime.datetime.utcnow(), in seconds
    _used_token,     \* WebServer._used_token: the timestamp of each ctoken seen
    accepted,        \* how often _check_token has returned True for each ctoken
    checked          \* how the last call of _check_token ended, and the ctoken
                     \* of the request if the call purged it from the store

vars == <<hasQueue, queue, scanning, adapterScanning, scannerFaulty, workerPc,
          workerTask,
          workerTry, nextTask, tasks, lastStarted, begun, connected, orphaned, calls,
          lastReturn, last_state, config, challenge, device_type, callback,
          lastSeen, replies, lockCount, lockState, outstanding, timedOut,
          resets, auth_id, nuki_public_key, shared_key, pairing_callback,
          paired, exited, now, last_ibeacon, lastAdvert, startOutcomes,
          attempt, scanResult, plain, wire, parsed,
         critical_battery_state, battery, errorReported, lastStop, entryPoint,
         utcnow, _used_token, accepted, checked>>

queueVars  == <<hasQueue, queue>>
scanVars   == <<scanning, adapterScanning>>
workerVars == <<workerPc, workerTask, workerTry>>
taskVars   == <<nextTask, tasks>>
linkVars   == <<connected, orphaned>>
callVars   == <<calls, lastReturn>>
nukiVars   == <<last_state, config, challenge, device_type>>
obsVars    == <<callback, lastSeen>>
lockVars   == <<replies, lockCount, lockState, outstanding, timedOut>>
credVars   == <<auth_id, nuki_public_key, shared_key>>
pairVars   == <<pairing_callback, paired, exited>>
beaconVars == <<now, last_ibeacon, lastAdvert>>
startVars  == <<startOutcomes, attempt, scanResult>>
codecVars  == <<plain, wire, parsed>>
batteryVars == <<critical_battery_state, battery>>
tokenVars  == <<utcnow, _used_token, accepted, checked>>
auxVars    == <<lastStop, entryPoint, tokenVars>>
extVars    == <<beaconVars, startVars, codecVars, batteryVars, errorReported, auxVars>>

\* ----------------------------------------------------------------- values
\* No frame, and no result of decoding one.
NoData == [kind |-> "none", value |-> <<>>]
NoPlain == [code |-> 0, payload |-> <<>>]
NotRead == [read |-> FALSE, critical |-> FALSE, charging |-> FALSE, percentage |-> 0]
NoWire == [char |-> "none", bytes |-> <<>>, altered |-> FALSE]
NotParsed == [tag |-> "none", command |-> "none", data |-> NoData]

\* No advertisement has been heard: _last_ibeacon is None.
Never == -1
NoAdvert == [at |-> Never, accepted |-> FALSE]

Pending      == [tag |-> "pending", val |-> "none"]
Result(v)    == [tag |-> "result", val |-> v]
Exception(e) == [tag |-> "exception", val |-> e]
Returns(v)   == [tag |-> "return", val |-> v]
Raises(e)    == [tag |-> "raise", val |-> e]

\* What the body of a submitted coroutine does when awaited.
Bodies == {Returns(v) : v \in Values} \cup {Raises(e) : e \in Errors}

\* The frames the bridge writes: REQUEST_DATA(what), REQUEST_CONFIG, LOCK_ACTION(a).
NoFrame == [cmd |-> "none", arg |-> "none"]
Frame(cmd, arg) == [cmd |-> cmd, arg |-> arg]

\* Nuki.last_state = None, and a parsed KEYTURNER_STATES snapshot.
NoState == [present |-> FALSE, count |-> 0, lock_state |-> "none", completion |-> 0]
State(count, ls, completion) ==
    [present |-> TRUE, count |-> count, lock_state |-> ls, completion |-> completion]
\* Nuki.config = {}, and a parsed CONFIG; `count` is the lock's update count the
\* configuration was read at.
NoConfig == [present |-> FALSE, id |-> "none", count |-> 0]
Config(id, count) == [present |-> TRUE, id |-> id, count |-> count]

\* Nuki._create_shared_key: the shared key is a function of the lock's public
\* key (and of the bridge's private key, which never changes).
Derive(key) ==
    CASE key = "pk0" -> "sk0"
      [] key = "pk1" -> "sk1"
      [] OTHER       -> "none"

\* The data of a PUBLIC_KEY, an AUTH_ID and an ERROR_REPORT notification.
PublicKey(key) == [public_key |-> key]
AuthId(id) == [auth_id |-> id]
ErrorReport(code) == [code |-> code]

\* A notification of the lock, as _parse_command returns it.
Notification(cmd, data) == [cmd |-> cmd, data |-> data]

\* A coroutine that called add_task and awaits the future: the operation it runs,
\* its device, its argument, the task it awaits, and whether a STATUS
\* notification was handled for its device since it began.
NewCall(op, dev, arg, t) ==
    [op |-> op, dev |-> dev, arg |-> arg, pc |-> "await", task |-> t,
     status |-> FALSE]

\* How a coroutine ended: normally ("done") or with an exception ("raised"),
\* what `await fut` gave it, and of the task it awaited: the body and whether the
\* frame was written ("written"), never written ("unsent") or there was none.
NoReturn ==
    [op |-> "none", dev |-> "none", how |-> "none", got |-> Pending,
     body |-> Returns("None"), sent |-> "none", status |-> FALSE]
Return(c, how) ==
    [op |-> c.op, dev |-> c.dev, how |-> how, got |-> tasks[c.task].fut,
     body |-> tasks[c.task].body, sent |-> tasks[c.task].state, status |-> c.status]

LiveTasks == DOMAIN tasks
CanSubmit == nextTask <= MaxTasks
CanSend == nextTask <= MaxFrames

\* ------------------------------------------------------------------ framing
\* NukiCommand: the known command codes.
NukiCommand ==
    [REQUEST_DATA |-> 1, PUBLIC_KEY |-> 3, CHALLENGE |-> 4,
     AUTH_AUTHENTICATOR |-> 5, AUTH_DATA |-> 6, AUTH_ID |-> 7,
     KEYTURNER_STATES |-> 12, LOCK_ACTION |-> 13, STATUS |-> 14,
     ERROR_REPORT |-> 18, REQUEST_CONFIG |-> 20, CONFIG |-> 21,
     AUTH_ID_CONFIRM |-> 30]
CommandNames == DOMAIN NukiCommand
NameOf(code) == CHOOSE c \in CommandNames : NukiCommand[c] = code
IsCommand(code) == \E c \in CommandNames : NukiCommand[c] = code

\* int.to_bytes(2, "little") and back.
LE2(n) == <<n % 256, (n \div 256) % 256>>
FromLE2(lo, hi) == lo + 256 * hi

\* b[i:j] of Python, for 0 <= i: the bytes i+1 .. min(j, len).
Slice(b, i, j) == SubSeq(b, i + 1, IF j < Len(b) THEN j ELSE Len(b))
\* b[i:], and b[i:-2]
DropNone(b, i) == SubSeq(b, i + 1, Len(b))
DropLast2(b, i) == SubSeq(b, i + 1, Len(b) - 2)

\* Bit i of a, and a ^ b for bytes and for 16-bit words.
Bit(a, i) == (a \div (2 ^ i)) % 2
XorBit(a, b, i) == ((Bit(a, i) + Bit(b, i)) % 2) * (2 ^ i)
XorByte(a, b) ==
    XorBit(a, b, 0) + XorBit(a, b, 1) + XorBit(a, b, 2) + XorBit(a, b, 3)
      + XorBit(a, b, 4) + XorBit(a, b, 5) + XorBit(a, b, 6) + XorBit(a, b, 7)
Xor(a, b) ==
    XorByte(a \div 256, b \div 256) * 256 + XorByte(a % 256, b % 256)

\* k steps of the shift register: shift left, and xor the polynomial 0x1021 in
\* when a one fell out.
RECURSIVE CrcShift(_, _)
CrcShift(crc, k) ==
    IF k = 0 THEN crc
    ELSE LET before == CrcShift(crc, k - 1)
         IN IF before >= 32768 THEN Xor((before * 2) % 65536, 4129)
                               ELSE before * 2

\* crc16.crc16xmodem(message, crc): CRC-16 with polynomial 0x1021, no reflection.
\* The register is taken through singleton sets so that each byte works on a
\* value, not on the unevaluated expression of all the bytes before it.
RECURSIVE crc16xmodem(_, _)
crc16xmodem(message, crc) ==
    IF Len(message) = 0 THEN crc
    ELSE LET before == {crc16xmodem(SubSeq(message, 1, Len(message) - 1), crc)}
             after == {CrcShift(Xor(c, message[Len(message)] * 256), 8) : c \in before}
         IN CHOOSE c \in after : TRUE

\* Nuki._prepare_command: the code, the payload and the CRC of both.
_prepare_command(cmd_code, payload) ==
    LET message == LE2(cmd_code) \o payload
    IN message \o LE2(crc16xmodem(message, 65535))

\* The trailing two bytes of a frame are the CRC of the bytes before them.
CrcMatches(frame) ==
    /\ Len(frame) >= 2
    /\ SubSeq(frame, Len(frame) - 1, Len(frame))
         = LE2(crc16xmodem(SubSeq(frame, 1, Len(frame) - 2), 65535))

\* nacl.secret.SecretBox, as far as the session relies on it: encrypt gives a
\* 16-byte authenticator and the message under a key stream, both depending on
\* the key and the nonce; decrypt raises CryptoError when the authenticator
\* does not fit and gives the message back otherwise.
RECURSIVE Sum(_)
Sum(b) == IF Len(b) = 0 THEN 0 ELSE Head(b) + Sum(Tail(b))

KeyNumber(key) == CASE key = "sk0" -> 7 [] key = "sk1" -> 11 [] OTHER -> 0
KeyStream(key, nonce, i) == (KeyNumber(key) * (i + 1) + Sum(nonce)) % 256
Authenticator(key, nonce, message) ==
    [i \in 1..16 |-> (KeyNumber(key) * i + Sum(nonce) + Sum(message) + Len(message)) % 256]
BoxEncrypt(key, nonce, message) ==
    Authenticator(key, nonce, message)
      \o [i \in 1..Len(message) |-> (message[i] + KeyStream(key, nonce, i)) % 256]
BoxMessage(key, nonce, encrypted) ==
    [i \in 1..(Len(encrypted) - 16) |->
        (encrypted[i + 16] + 256 - KeyStream(key, nonce, i)) % 256]
\* A box that opens whatever it is given.
BoxOpensUnchecked(key, nonce, encrypted) == Len(encrypted) >= 16

BoxOpens(key, nonce, encrypted) ==
    /\ Len(encrypted) >= 16
    /\ SubSeq(encrypted, 1, 16)
         = Authenticator(key, nonce, BoxMessage(key, nonce, encrypted))

\* Nuki.auth_id as its four bytes.
AuthIdBytes(id) ==
    CASE id = "id0" -> <<16, 0, 0, 0>> [] id = "id1" -> <<17, 0, 0, 0>>
      [] OTHER -> <<0, 0, 0, 0>>

\* Nuki._encrypt_command: auth_id, code and payload with a CRC of their own are
\* encrypted; nonce, auth_id and the length go in front.
_encrypt_command(id, key, nonce, cmd_code, payload) ==
    LET prepared == _prepare_command(cmd_code, payload)
        body == AuthIdBytes(id) \o SubSeq(prepared, 1, Len(prepared) - 2)
        unencrypted == body \o LE2(crc16xmodem(body, 65535))
        encrypted == BoxEncrypt(key, nonce, unencrypted)
    IN nonce \o AuthIdBytes(id) \o LE2(Len(encrypted)) \o encrypted

\* Nuki._decrypt_command: the bytes after the auth_id of the decrypted message,
\* or the exception of decrypt.
Undecoded(error) == [tag |-> "exception", command |-> error, data |-> NoData]
_decrypt_command(key, data) ==
    LET nonce == Slice(data, 0, 24)
        length == FromLE2(data[29], data[30])
        encrypted == Slice(data, 30, 30 + length)
    IN IF Len(data) < 30 THEN Undecoded("struct.error")
       ELSE IF ~BoxOpens(key, nonce, encrypted) THEN Undecoded("CryptoError")
       ELSE [tag |-> "return", command |-> "bytes",
             data |-> [kind |-> "bytes",
                       value |-> Slice(BoxMessage(key, nonce, encrypted), 4,
                                       Len(encrypted))]]

\* Nuki._parse_command: the code is looked up, the first two and the last two
\* bytes are cut off, and what is left is decoded as the command requires.  The
\* CRC is not looked at.  Commands the lock does not send give (None, None).
Returned(command, kind, value) ==
    [tag |-> "return", command |-> command, data |-> [kind |-> kind, value |-> value]]

StatusCode(b) == CASE b = 0 -> "COMPLETED" [] b = 1 -> "ACCEPTED" [] OTHER -> "none"
SignedByte(b) == IF b >= 128 THEN b - 256 ELSE b
ConfigLength(type) == IF type = "OPENER" THEN 72 ELSE 74

_parse_command(type, frame) ==
    IF Len(frame) < 2 THEN Undecoded("struct.error")
    ELSE IF ~IsCommand(FromLE2(frame[1], frame[2])) THEN Undecoded("ValueError")
    ELSE
      LET command == NameOf(FromLE2(frame[1], frame[2]))
          data == DropLast2(frame, 2)
      IN CASE command = "CHALLENGE" -> Returned(command, "nonce", data)
           [] command = "KEYTURNER_STATES" ->
                IF Len(data) < 21 THEN Undecoded("struct.error")
                ELSE Returned(command, "fields", Slice(data, 0, 21))
           [] command = "CONFIG" ->
                IF Len(data) < ConfigLength(type) THEN Undecoded("struct.error")
                ELSE Returned(command, "fields", Slice(data, 0, ConfigLength(type)))
           [] command = "PUBLIC_KEY" -> Returned(command, "public_key", data)
           [] command = "AUTH_ID" ->
                IF Len(data) < 84 THEN Undecoded("struct.error")
                ELSE Returned(command, "fields", Slice(data, 0, 84))
           [] command = "STATUS" ->
                IF Len(data) < 1 THEN Undecoded("struct.error")
                ELSE IF StatusCode(data[1]) = "none" THEN Undecoded("ValueError")
                ELSE Returned(command, "status", <<data[1]>>)
           [] command = "ERROR_REPORT" ->
                IF Len(data) < 3 THEN Undecoded("struct.error")
                ELSE Returned(command, "error", <<SignedByte(data[1])>>)
           [] OTHER -> Returned("None", "None", <<>>)

\* ------------------------------------------------------ TaskQueue.add_task
\* A wrapper that sets the future on a result only, and drops an exception.
wrapper_taskDropsException(body) ==
    IF body.tag = "return" THEN Result(body.val) ELSE Pending

\* wrapper_task: the result goes to the future, an exception too.
wrapper_task(body) ==
    IF body.tag = "return" THEN Result(body.val) ELSE Exception(body.val)

\* A queue that hands out the newest entry first.
QueuePutLifo(q, t) == <<t>> \o q

\* await self._queue.put(wrapper_task): the queue is unbounded and FIFO.
QueuePut(q, t) == Append(q, t)
\* task = await self._queue.get()
QueueGet(q) == Head(q)
QueueRest(q) == Tail(q)

\* The future is created, the wrapper is queued, the caller awaits the future
\* (`awaited`: some coroutine reads the future's outcome later).
EnqueueOn(live, kind, dev, body, frame, awaited) ==
    /\ tasks' = live @@ (nextTask :>
                   [kind |-> kind, dev |-> dev, body |-> body, frame |-> frame,
                    state |-> "queued", fut |-> Pending, awaited |-> awaited])
    /\ nextTask' = nextTask + 1
    /\ queue' = QueuePut(queue, nextTask)

Enqueue(kind, dev, body, frame, awaited) ==
    EnqueueOn(tasks, kind, dev, body, frame, awaited)

\* The awaiting coroutine c resumes: it and the future are of no further use.
Resumable(c) == c \in calls /\ tasks[c.task].fut.tag # "pending"
Forget(t) == [x \in LiveTasks \ {t} |-> tasks[x]]

\* A client coroutine calls add_task(task) with an arbitrary coroutine `task`.
add_task(body) ==
    /\ hasQueue
    /\ CanSubmit
    /\ Enqueue("call", "none", body, NoFrame, TRUE)
    /\ calls' = calls \cup {NewCall("add_task", "none", "none", nextTask)}
    /\ UNCHANGED <<hasQueue, scanVars, workerVars, lastStarted, begun,
                   scannerFaulty, extVars, resets, credVars, pairVars, linkVars,
                   lastReturn, nukiVars, obsVars, lockVars>>

\* `return await fut`: the caller resumes with the future's outcome.
add_task_return(c) ==
    /\ Resumable(c)
    /\ c.op = "add_task"
    /\ calls' = calls \ {c}
    /\ lastReturn' = Return(c, IF tasks[c.task].fut.tag = "result"
                               THEN "done" ELSE "raised")
    /\ tasks' = Forget(c.task)
    /\ UNCHANGED <<queueVars, scanVars, workerVars, nextTask, lastStarted,
                   begun, scannerFaulty, extVars, resets, credVars, pairVars, linkVars,
                   nukiVars, obsVars, lockVars>>

\* --------------------------------------------------------- TaskQueue.start
\* A start without its guard, and a start whose guard treats an empty queue as
\* false (as a container with __len__ would be).
StartGuardNever == FALSE
StartGuardEmptyIsFalse == hasQueue /\ queue # <<>>

\* `if self._queue: return` -- an asyncio.Queue object is always truthy.
StartGuard == hasQueue

start ==
    IF StartGuard
    THEN UNCHANGED vars
    ELSE /\ hasQueue' = TRUE
         /\ queue' = <<>>
         /\ \E w \in WorkerIds :
              /\ workerPc[w] = "none"
              /\ \A v \in WorkerIds : v < w => workerPc[v] # "none"
              /\ workerPc' = [workerPc EXCEPT ![w] = "initial"]
         /\ UNCHANGED <<scanVars, workerTask, workerTry, taskVars,
                        lastStarted, begun, scannerFaulty, extVars, resets, credVars,
                        pairVars, linkVars, callVars, nukiVars, obsVars,
                        lockVars>>

\* ------------------------------------------------ the BLE port (environment)
\* await self._scanner.start(): on success the adapter scans; a failed start
\* leaves the adapter as it was.
ScannerStart(ok) == IF ok THEN TRUE ELSE adapterScanning
\* await self._scanner.stop(): on success the adapter is idle; after a timeout
\* or a D-Bus error it may or may not still be scanning.
ScannerStop(ok, still) == IF ok THEN FALSE ELSE adapterScanning /\ still
\* The outcomes a scanner call can have on this adapter.
ScannerOutcomes == IF scannerFaulty THEN BOOLEAN ELSE {TRUE}

\* ------------------------------------------- NukiManager.start/stop_scanning
\* start_scanning: returns after a successful start, raises when the attempts fail.
start_scanning(ok) ==
    /\ adapterScanning' = ScannerStart(ok)

\* One pass of the loop `for i in range(1, ATTEMPTS + 1)` of start_scanning:
\* the scanner's start() succeeds (break), or raises BleakDBusError, which is
\* raised on when i >= ATTEMPTS - 1 and followed by a sleep of 2^i s otherwise.
LastAttempt(i) == i >= ATTEMPTS - 1

start_scanning_attempt ==
    /\ scanResult = "none"
    /\ attempt < ATTEMPTS
    /\ attempt' = attempt + 1
    /\ IF startOutcomes[attempt + 1]
       THEN /\ scanResult' = "started"
            /\ adapterScanning' = ScannerStart(TRUE)
       ELSE /\ scanResult' = IF LastAttempt(attempt + 1) THEN "raised" ELSE "none"
            /\ adapterScanning' = ScannerStart(FALSE)
    /\ UNCHANGED <<queueVars, scanning, workerVars, taskVars, lastStarted,
                   begun, scannerFaulty, resets, credVars, pairVars, linkVars,
                   callVars, nukiVars, obsVars, lockVars, beaconVars,
                   startOutcomes, codecVars, batteryVars, errorReported, auxVars>>

\* stop_scanning: TimeoutError, CancelledError, BleakDBusError and AttributeError
\* are logged and swallowed, so it returns normally whatever the scanner did.
stop_scanning(ok, still) ==
    /\ adapterScanning' = ScannerStop(ok, still)

\* What `await asyncio.wait_for(self._scanner.stop(), timeout)` raises when the
\* stop fails: the 10 s are over, the bus reports an error, or the scanner was
\* never started and has no bus to talk to.
StopErrors == {"TimeoutError", "BleakDBusError", "AttributeError"}

\* A stop_scanning that handles the timeout only.
CaughtTimeoutOnly == {"TimeoutError", "CancelledError"}

\* The except clauses of stop_scanning.
Caught == {"TimeoutError", "CancelledError", "BleakDBusError", "AttributeError"}

\* stop_scanning raises what its except clauses do not name.
stop_scanning_raises(error) == error # "none" /\ error \notin Caught

\* How a call of stop_scanning ended, for its caller.
NotStopped == "none"
Stopped(error) == IF stop_scanning_raises(error) THEN "raised" ELSE "returned"

\* -------------------------------------------------------- TaskQueue._worker
Dequeue(w) ==
    /\ queue # <<>>
    /\ workerTask' = [workerTask EXCEPT ![w] = QueueGet(queue)]
    /\ queue' = QueueRest(queue)
    /\ workerPc' = [workerPc EXCEPT ![w] = "got"]

\* initial_run: start scanning, then block on the first get(); a failed start
\* `continue`s into the ordinary loop with _scanning still False.
WorkerInitial(w) ==
    /\ workerPc[w] = "initial"
    /\ \E ok \in ScannerOutcomes :
         /\ start_scanning(ok)
         /\ scanning' = IF ok THEN TRUE ELSE scanning
         /\ workerPc' = [workerPc EXCEPT ![w] = IF ok THEN "get" ELSE "top"]
    /\ UNCHANGED <<queueVars, workerTask, workerTry, taskVars, lastStarted,
                   begun, scannerFaulty, extVars, resets, credVars, pairVars, linkVars,
                   callVars, nukiVars, obsVars, lockVars>>

\* Top of the loop: with tasks queued the next one is taken at once, otherwise
\* the worker waits for one with the 10 s timeout.
WorkerTop(w) ==
    /\ workerPc[w] = "top"
    /\ IF queue = <<>>
       THEN /\ workerPc' = [workerPc EXCEPT ![w] = "wait"]
            /\ UNCHANGED <<queue, workerTask>>
       ELSE Dequeue(w)
    /\ UNCHANGED <<hasQueue, scanVars, workerTry, taskVars, lastStarted,
                   begun, scannerFaulty, extVars, resets, credVars, pairVars, linkVars,
                   callVars, nukiVars, obsVars, lockVars>>

\* wait_for(self._queue.get(), timeout=10): a task arrives in time ...
WorkerWaitGet(w) ==
    /\ workerPc[w] = "wait"
    /\ Dequeue(w)
    /\ UNCHANGED <<hasQueue, scanVars, workerTry, taskVars, lastStarted,
                   begun, scannerFaulty, extVars, resets, credVars, pairVars, linkVars,
                   callVars, nukiVars, obsVars, lockVars>>

\* ... or the queue stays empty for 10 s: "No more tasks - cleaning up".
WorkerIdleTimeout(w) ==
    /\ workerPc[w] = "wait"
    /\ queue = <<>>
    /\ workerPc' = [workerPc EXCEPT ![w] = "cleanup"]
    /\ UNCHANGED <<queueVars, scanVars, workerTask, workerTry, taskVars,
                   lastStarted, begun, scannerFaulty, extVars, resets, credVars,
                   pairVars, linkVars, callVars, nukiVars, obsVars, lockVars>>

\* Nuki.disconnect, for every device: a connected client is disconnected; an
\* exception of disconnect() is swallowed and may leave the link open.
DisconnectOutcomes ==
    {c \in [Devices -> BOOLEAN] : \A d \in Devices : c[d] => connected[d]}

WorkerCleanup(w) ==
    /\ workerPc[w] = "cleanup"
    /\ \E c \in DisconnectOutcomes :
         /\ connected' = c
         /\ replies' = [d \in Devices |-> IF c[d] THEN replies[d] ELSE <<>>]
    /\ workerPc' = [workerPc EXCEPT ![w] = "rescan"]
    /\ UNCHANGED <<queueVars, scanVars, workerTask, workerTry, taskVars,
                   lastStarted, begun, scannerFaulty, extVars, resets, credVars,
                   pairVars, orphaned, callVars, nukiVars, obsVars, lockCount,
                   lockState, outstanding, timedOut>>

\* `if not self._scanning:` start scanning again; then block on get().
WorkerRescan(w) ==
    /\ workerPc[w] = "rescan"
    /\ IF ~scanning
       THEN \E ok \in ScannerOutcomes :
              /\ start_scanning(ok)
              /\ scanning' = IF ok THEN TRUE ELSE scanning
       ELSE UNCHANGED scanVars
    /\ workerPc' = [workerPc EXCEPT ![w] = "get"]
    /\ UNCHANGED <<queueVars, workerTask, workerTry, taskVars, lastStarted,
                   begun, scannerFaulty, extVars, resets, credVars, pairVars, linkVars,
                   callVars, nukiVars, obsVars, lockVars>>

\* task = await self._queue.get(), without timeout.
WorkerGet(w) ==
    /\ workerPc[w] = "get"
    /\ Dequeue(w)
    /\ UNCHANGED <<hasQueue, scanVars, workerTry, taskVars, lastStarted,
                   begun, scannerFaulty, extVars, resets, credVars, pairVars, linkVars,
                   callVars, nukiVars, obsVars, lockVars>>

\* A worker that would go on to `await task()` with the scanner as it is.
WorkerKeepsScanning(w) ==
    /\ workerPc[w] = "got"
    /\ workerPc' = [workerPc EXCEPT ![w] = "run"]
    /\ workerTry' = [workerTry EXCEPT ![w] = 1]
    /\ lastStarted' = workerTask[w]
    /\ UNCHANGED <<queueVars, scanVars, workerTask, taskVars, begun,
                   scannerFaulty, extVars, resets, credVars, pairVars, linkVars,
                   callVars, nukiVars, obsVars, lockVars>>

\* `if self._scanning:` stop scanning and clear the flag; then `await task()`.
WorkerStopScan(w) ==
    /\ workerPc[w] = "got"
    /\ IF scanning
       THEN \E ok \in ScannerOutcomes, still \in BOOLEAN, error \in StopErrors :
                /\ stop_scanning(ok, still)
                /\ lastStop' = Stopped(IF ok THEN "none" ELSE error)
                \* `self._scanning = False` is skipped by the `except: pass`
                /\ scanning' = (scanning /\ lastStop' = "raised")
       ELSE UNCHANGED <<scanVars, lastStop>>
    /\ workerPc' = [workerPc EXCEPT ![w] = "run"]
    /\ workerTry' = [workerTry EXCEPT ![w] = 1]
    /\ lastStarted' = workerTask[w]
    /\ UNCHANGED <<queueVars, workerTask, taskVars, begun, scannerFaulty,
                   beaconVars, startVars, codecVars, batteryVars, errorReported,
                   entryPoint, tokenVars, resets, credVars, pairVars, linkVars,
                   callVars, nukiVars, obsVars, lockVars>>

\* A worker that ends with the task that raised.
FinishOrStop(w, outcome, state) ==
    /\ tasks' = IF tasks[workerTask[w]].awaited
                THEN [tasks EXCEPT ![workerTask[w]].state = state,
                                   ![workerTask[w]].fut = wrapper_task(outcome)]
                ELSE Forget(workerTask[w])
    /\ workerPc' = [workerPc EXCEPT ![w] = IF outcome.tag = "return"
                                           THEN "top" ELSE "ended"]
    /\ workerTask' = [workerTask EXCEPT ![w] = 0]
    /\ workerTry' = [workerTry EXCEPT ![w] = 0]

\* The task ended: its future is resolved by wrapper_task, task_done() is
\* called and the worker is back at the top of its loop.
Finish(w, outcome, state) ==
    /\ tasks' = IF tasks[workerTask[w]].awaited
                THEN [tasks EXCEPT ![workerTask[w]].state = state,
                                   ![workerTask[w]].fut = wrapper_task(outcome)]
                ELSE Forget(workerTask[w])
    /\ workerPc' = [workerPc EXCEPT ![w] = "top"]
    /\ workerTask' = [workerTask EXCEPT ![w] = 0]
    /\ workerTry' = [workerTry EXCEPT ![w] = 0]

\* `await task()` for a client's coroutine: it returns or raises.
WorkerRunCall(w) ==
    /\ workerPc[w] = "run"
    /\ tasks[workerTask[w]].kind = "call"
    /\ Finish(w, tasks[workerTask[w]].body, "done")
    /\ UNCHANGED <<queueVars, scanVars, nextTask, lastStarted, begun,
                   scannerFaulty, extVars, resets, credVars, pairVars, linkVars,
                   callVars, nukiVars, obsVars, lockVars>>

\* ---------------------------------------------------------- the event loop
\* fut.set_result schedules the awaiting coroutine with call_soon, so it runs
\* in the loop's next pass; a BLE call the worker makes for a later task
\* completes through the bus, in a pass after that.
CallersHaveRun == \A c \in calls : tasks[c.task].fut = Pending

\* ------------------------------------------------------------ Nuki.connect
\* Returns at once on a connected client; otherwise connects, detects the device
\* type when unknown and subscribes to both characteristics.  `ok` is the
\* outcome of BleakClient.connect.
connect_raises(d, ok) == ~connected[d] /\ ~ok

connect(d, ok) ==
    /\ connected' = [connected EXCEPT ![d] = connected[d] \/ ok]
    /\ device_type' =
         IF ~connected[d] /\ ok /\ device_type[d] = "none"
         THEN [device_type EXCEPT ![d] = DeviceKind[d]]
         ELSE device_type

\* `conn`, the task _detected_ibeacon queues for a device of unknown type:
\* connect, with every exception logged and swallowed.
WorkerRunConn(w) ==
    /\ workerPc[w] = "run"
    /\ tasks[workerTask[w]].kind = "conn"
    /\ CallersHaveRun
    /\ \E ok \in BOOLEAN : connect(tasks[workerTask[w]].dev, ok)
    /\ Finish(w, Returns("None"), "done")
    /\ UNCHANGED <<queueVars, scanVars, nextTask, lastStarted, begun,
                   scannerFaulty, extVars, resets, credVars, pairVars, orphaned,
                   callVars, last_state, config, challenge, obsVars,
                   lockVars>>

\* ------------------------------------------------------------- the lock
\* What the lock does with a frame it received: its notifications, in order.
LockStateAfter(d, action) ==
    IF DeviceKind[d] = "OPENER"
    THEN (IF action = "LOCK" THEN "LOCKED" ELSE "OPEN")
    ELSE (CASE action = "LOCK" -> "LOCKED"
            [] action = "UNLOCK" -> "UNLOCKED"
            [] OTHER -> "UNLATCHED")

LockReplies(d, frame) ==
    CASE frame.cmd = "REQUEST_DATA" /\ frame.arg = "KEYTURNER_STATES" ->
            <<Notification("KEYTURNER_STATES", State(lockCount[d], lockState[d], 0))>>
      [] frame.cmd = "REQUEST_DATA" /\ frame.arg = "CHALLENGE" ->
            <<Notification("CHALLENGE", NoState)>>
      [] frame.cmd = "REQUEST_CONFIG" ->
            <<Notification("CONFIG", Config(d, lockCount[d]))>>
      [] frame.cmd = "LOCK_ACTION" ->
            <<Notification("STATUS", NoState),
              Notification("KEYTURNER_STATES",
                           State(lockCount[d], LockStateAfter(d, frame.arg), 0))>>
      [] frame.cmd = "REQUEST_DATA" /\ frame.arg = "PUBLIC_KEY" ->
            <<Notification("PUBLIC_KEY", PublicKey("pk1"))>>
      [] frame.cmd \in {"PUBLIC_KEY", "AUTH_AUTHENTICATOR"} ->
            <<Notification("CHALLENGE", NoState)>>
      [] frame.cmd = "AUTH_DATA" ->
            <<Notification("AUTH_ID", AuthId("id1"))>>
      [] frame.cmd = "AUTH_ID_CONFIRM" ->
            <<Notification("STATUS", NoState)>>
      [] OTHER -> <<>>

\* -------------------------------------------------------- Nuki._send_data
\* One pass of the retry loop of the queued task: connect, write; an exception
\* is logged and, after asyncio.sleep(0.2), the next attempt follows.  When the
\* attempts are used up the loop ends and the task returns None all the same.
RetryExhaustedLate(i) == i > retry

RetryExhausted(i) == i >= retry

WorkerSendAttempt(w) ==
    /\ workerPc[w] = "run"
    /\ tasks[workerTask[w]].kind = "send"
    /\ CallersHaveRun
    /\ LET t == workerTask[w]
           d == tasks[t].dev
       IN \E cok \in BOOLEAN, wok \in BOOLEAN, heard \in BOOLEAN :
            /\ connect(d, cok)
            /\ IF ~connect_raises(d, cok) /\ wok
               THEN \* "Data sent on attempt i": break
                    /\ Finish(w, Returns("None"), "written")
                    /\ replies' =
                         [replies EXCEPT ![d] =
                            IF heard THEN @ \o LockReplies(d, tasks[t].frame) ELSE @]
                    /\ lockState' =
                         IF heard /\ tasks[t].frame.cmd = "LOCK_ACTION"
                         THEN [lockState EXCEPT
                                 ![d] = LockStateAfter(d, tasks[t].frame.arg)]
                         ELSE lockState
                    /\ outstanding' = [outstanding EXCEPT ![d] = TRUE]
                    /\ timedOut' = [timedOut EXCEPT ![d] = FALSE]
               ELSE /\ IF RetryExhausted(workerTry[w])
                       THEN Finish(w, Returns("None"), "unsent")
                       ELSE /\ workerTry' = [workerTry EXCEPT ![w] = @ + 1]
                            /\ UNCHANGED <<workerPc, workerTask, tasks>>
                    /\ UNCHANGED <<replies, lockState, outstanding, timedOut>>
    /\ UNCHANGED <<queueVars, scanVars, nextTask, lastStarted, begun,
                   scannerFaulty, extVars, resets, credVars, pairVars, orphaned,
                   callVars, last_state, config, challenge, obsVars,
                   lockCount>>

\* _send_data(characteristic, data): the write is queued as a task and awaited.
_send_data(d, frame, awaited) == Enqueue("send", d, Returns("None"), frame, awaited)

\* ----------------------------------------- NukiManager.nuki_newstate (observer)
\* What the observer reads when it is invoked for device d: the device's state
\* and config, and (for the record) the path that invoked it, whether that path
\* found the config in need of a refetch, the reply the session awaited when the
\* notification came, and whether the path awaited a get_config before.
NotSeen ==
    [path |-> "none", state |-> NoState, config |-> NoConfig, need |-> FALSE,
     awaited |-> "none", chained |-> FALSE]
Seen(path, st, cf, need, awaited, chained) ==
    [path |-> path, state |-> st, config |-> cf, need |-> need,
     awaited |-> awaited, chained |-> chained]

\* `if self.newstate_callback: await self.newstate_callback(nuki)`
nuki_newstate(d, entry) ==
    lastSeen' = IF callback THEN [lastSeen EXCEPT ![d] = entry] ELSE lastSeen

\* The guard in front of every nuki_newstate call of the session:
\* `if self.config and self.last_state`.
HasStateAndConfig(st, cf) == cf.present /\ st.present

\* The newstate_callback setter: the new callback is called for every device,
\* whatever the device holds.
SetterInvokes(d) == TRUE

SetCallback ==
    /\ ~callback
    /\ callback' = TRUE
    /\ lastSeen' = [d \in Devices |->
                      IF SetterInvokes(d)
                      THEN Seen("setter", last_state[d], config[d], FALSE,
                                challenge[d], FALSE)
                      ELSE lastSeen[d]]
    /\ UNCHANGED <<queueVars, scanVars, workerVars, taskVars, lastStarted,
                   begun, scannerFaulty, extVars, resets, credVars, pairVars, linkVars,
                   callVars, nukiVars, lockVars>>

\* ------------------------------------------- Nuki._notification_handler
Arrived(d, cmd) ==
    /\ connected[d]
    /\ replies[d] # <<>>
    /\ Head(replies[d]).cmd = cmd

Consumed(d) ==
    /\ replies' = [replies EXCEPT ![d] = Tail(@)]
    /\ outstanding' = [outstanding EXCEPT ![d] = FALSE]
    /\ UNCHANGED <<lockCount, lockState, timedOut>>

\* update_config = not self.config or (last_state[count] != data[count])
update_config(d, data) ==
    ~config[d].present \/ last_state[d].count # data.count

\* A handler that never refetches the config.
ChainsGetConfigNever(d, data) == FALSE

\* `if self._challenge_command == NukiCommand.KEYTURNER_STATES: if update_config:`
ChainsGetConfig(d, data) ==
    challenge[d] = "KEYTURNER_STATES" /\ update_config(d, data)

\* A handler that creates a reset task for no device.
SchedulesResetNever(d, st) == FALSE

\* `if self.device_type == DeviceType.OPENER and
\*     self.last_state["last_lock_action_completion_status"]:`
SchedulesReset(d, st) ==
    device_type[d] = "OPENER" /\ st.present /\ st.completion # 0

\* `self._reset_opener_state_task = asyncio.create_task(self.reset_opener_state())`
create_reset(d, st) ==
    IF SchedulesReset(d, st)
    THEN /\ resets[d] < MaxResets
         /\ resets' = [resets EXCEPT ![d] = @ + 1]
    ELSE UNCHANGED resets

\* reset_opener_state, after `await asyncio.sleep(30)`: the completion status
\* of whatever last_state is by then is set to 0, and the observer is told.
reset_opener_state(d) ==
    /\ resets[d] > 0
    /\ resets' = [resets EXCEPT ![d] = @ - 1]
    /\ IF last_state[d].present
       THEN /\ last_state' = [last_state EXCEPT ![d].completion = 0]
            /\ IF HasStateAndConfig(last_state[d], config[d])
               THEN nuki_newstate(d, Seen("reset", last_state'[d], config[d],
                                          FALSE, challenge[d], FALSE))
               ELSE UNCHANGED lastSeen
       ELSE UNCHANGED <<last_state, lastSeen>>
    /\ UNCHANGED <<queueVars, scanVars, workerVars, taskVars, lastStarted,
                   begun, scannerFaulty, extVars, credVars, pairVars, linkVars,
                   callVars, config, challenge, device_type, callback,
                   lockVars>>

\* KEYTURNER_STATES: last_state is replaced; a config refetch is chained when the
\* state was the awaited reply; then the observer is told.  With a config but no
\* last_state the subscript in update_config raises and the handler ends.
NotifyKeyturnerStates(d) ==
    /\ Arrived(d, "KEYTURNER_STATES")
    /\ Consumed(d)
    /\ LET data == Head(replies[d]).data IN
       IF config[d].present /\ ~last_state[d].present
       THEN UNCHANGED <<queueVars, taskVars, calls, nukiVars, obsVars, resets>>
       ELSE /\ last_state' = [last_state EXCEPT ![d] = data]
            /\ IF ChainsGetConfig(d, data)
               THEN \* await self.get_config()
                    /\ CanSubmit
                    /\ challenge' = [challenge EXCEPT ![d] = "REQUEST_CONFIG"]
                    /\ _send_data(d, Frame("REQUEST_DATA", "CHALLENGE"), TRUE)
                    /\ calls' = calls \cup {NewCall("keyturner_states", d, "none",
                                                    nextTask)}
                    /\ UNCHANGED <<hasQueue, config, device_type, obsVars,
                                   resets>>
               ELSE /\ IF HasStateAndConfig(data, config[d])
                       THEN nuki_newstate(d, Seen("KEYTURNER_STATES", data, config[d],
                                                  update_config(d, data), challenge[d],
                                                  FALSE))
                       ELSE UNCHANGED lastSeen
                    /\ create_reset(d, data)
                    /\ UNCHANGED <<queueVars, taskVars, calls, config,
                                   challenge, device_type, callback>>
    /\ UNCHANGED <<scanVars, workerVars, lastStarted, begun, scannerFaulty, extVars,
                   credVars, pairVars, linkVars, lastReturn>>

\* ... the handler resumes when get_config's write task has ended.
ResumeKeyturnerStates(c) ==
    /\ Resumable(c)
    /\ c.op = "keyturner_states"
    /\ calls' = calls \ {c}
    /\ tasks' = Forget(c.task)
    /\ IF HasStateAndConfig(last_state[c.dev], config[c.dev])
       THEN nuki_newstate(c.dev, Seen("KEYTURNER_STATES", last_state[c.dev],
                                      config[c.dev], TRUE, "KEYTURNER_STATES", TRUE))
       ELSE UNCHANGED lastSeen
    /\ create_reset(c.dev, last_state[c.dev])
    /\ UNCHANGED <<queueVars, scanVars, workerVars, nextTask, lastStarted,
                   begun, scannerFaulty, extVars,
                   credVars, pairVars, linkVars,
                   lastReturn, nukiVars, callback, lockVars>>

\* CONFIG: config is replaced and the observer is told.
NotifyConfig(d) ==
    /\ Arrived(d, "CONFIG")
    /\ Consumed(d)
    /\ LET data == Head(replies[d]).data IN
       /\ config' = [config EXCEPT ![d] = data]
       /\ IF HasStateAndConfig(last_state[d], data)
          THEN nuki_newstate(d, Seen("CONFIG", last_state[d], data, FALSE,
                                     challenge[d], FALSE))
          ELSE UNCHANGED lastSeen
    /\ UNCHANGED <<queueVars, scanVars, workerVars, taskVars, lastStarted,
                   begun, scannerFaulty, extVars, resets, credVars, pairVars, linkVars,
                   callVars, last_state, challenge, device_type, callback>>

IsLockOp(op) == op \in {"lock", "unlock", "unlatch", "lock_action"}

\* STATUS: logged ("Last action"); when AUTH_ID_CONFIRM was the last frame of a
\* pairing, the pairing callback is called and cleared.
NotifyStatus(d) ==
    /\ Arrived(d, "STATUS")
    /\ Consumed(d)
    /\ calls' = {IF c.dev = d /\ IsLockOp(c.op) THEN [c EXCEPT !.status = TRUE] ELSE c
                 : c \in calls}
    /\ IF challenge[d] = "AUTH_ID_CONFIRM" /\ pairing_callback[d]
       THEN /\ paired' = [paired EXCEPT ![d] = @ + 1]
            /\ pairing_callback' = [pairing_callback EXCEPT ![d] = FALSE]
       ELSE UNCHANGED <<paired, pairing_callback>>
    /\ UNCHANGED <<queueVars, scanVars, workerVars, taskVars, lastStarted,
                   begun, scannerFaulty, extVars, resets, credVars, exited, linkVars,
                   lastReturn, nukiVars, obsVars>>

\* CHALLENGE: answered with the request the session prepared (REQUEST_CONFIG,
\* the lock action, or the next frame of the pairing); with any other
\* _challenge_command nothing is sent.
NotifyChallenge(d) ==
    /\ Arrived(d, "CHALLENGE")
    /\ Consumed(d)
    /\ IF challenge[d] = "REQUEST_CONFIG"
       THEN /\ CanSubmit
            /\ _send_data(d, Frame("REQUEST_CONFIG", "nonce"), FALSE)
            /\ UNCHANGED <<hasQueue, challenge>>
       ELSE IF challenge[d] \in NukiAction
       THEN /\ CanSubmit
            /\ _send_data(d, Frame("LOCK_ACTION", challenge[d]), FALSE)
            /\ UNCHANGED <<hasQueue, challenge>>
       ELSE IF challenge[d] = "PUBLIC_KEY"
       THEN /\ CanSend
            /\ challenge' = [challenge EXCEPT ![d] = "AUTH_AUTHENTICATOR"]
            /\ _send_data(d, Frame("AUTH_AUTHENTICATOR", "hmac"), FALSE)
            /\ UNCHANGED hasQueue
       ELSE IF challenge[d] = "AUTH_AUTHENTICATOR"
       THEN /\ CanSend
            /\ challenge' = [challenge EXCEPT ![d] = "AUTH_DATA"]
            /\ _send_data(d, Frame("AUTH_DATA", "hmac"), FALSE)
            /\ UNCHANGED hasQueue
       ELSE UNCHANGED <<queueVars, taskVars, challenge>>
    /\ UNCHANGED <<scanVars, workerVars, lastStarted, begun, scannerFaulty, extVars,
                   resets, credVars, pairVars, linkVars, callVars, last_state,
                   config, device_type, obsVars>>

\* PUBLIC_KEY: the lock's key is stored and the shared key derived from it,
\* whatever the session was doing; the bridge's key is sent in answer.
NotifyPublicKey(d) ==
    /\ Arrived(d, "PUBLIC_KEY")
    /\ Consumed(d)
    /\ CanSend
    /\ LET data == Head(replies[d]).data IN
         /\ nuki_public_key' = [nuki_public_key EXCEPT ![d] = data.public_key]
         /\ shared_key' = [shared_key EXCEPT ![d] = Derive(data.public_key)]
    /\ challenge' = [challenge EXCEPT ![d] = "PUBLIC_KEY"]
    /\ _send_data(d, Frame("PUBLIC_KEY", "bridge_public_key"), FALSE)
    /\ UNCHANGED <<hasQueue, scanVars, workerVars, lastStarted, begun,
                   scannerFaulty, extVars, resets, auth_id, pairVars, linkVars,
                   callVars, last_state, config, device_type, obsVars>>

\* The AUTH_ID message carries an authenticator (an hmac under the shared key)
\* in front of the id; one that the lock made, or one that anybody made.
SignedAuthId(id, authenticator) == [auth_id |-> id, authenticator |-> authenticator]
Genuine(data) == "authenticator" \in DOMAIN data => data.authenticator = "genuine"

\* A handler that drops an AUTH_ID whose authenticator is not the lock's.
NotifyAuthIdVerified(d) ==
    /\ Arrived(d, "AUTH_ID")
    /\ Consumed(d)
    /\ IF ~Genuine(Head(replies[d]).data) \/ shared_key[d] = "none"
       THEN UNCHANGED <<queueVars, taskVars, challenge, auth_id>>
       ELSE /\ CanSend
            /\ auth_id' = [auth_id EXCEPT ![d] = Head(replies[d]).data.auth_id]
            /\ challenge' = [challenge EXCEPT ![d] = "AUTH_ID_CONFIRM"]
            /\ _send_data(d, Frame("AUTH_ID_CONFIRM", "hmac"), FALSE)
            /\ UNCHANGED hasQueue
    /\ UNCHANGED <<scanVars, workerVars, lastStarted, begun, scannerFaulty, extVars,
                   resets, nuki_public_key, shared_key, pairVars, linkVars,
                   callVars, last_state, config, device_type, obsVars>>

\* AUTH_ID: the authorization id is stored, whatever the session was doing, and
\* confirmed; without a shared key the hmac raises AttributeError after the id
\* was stored.
NotifyAuthId(d) ==
    /\ Arrived(d, "AUTH_ID")
    /\ Consumed(d)
    /\ auth_id' = [auth_id EXCEPT ![d] = Head(replies[d]).data.auth_id]
    /\ IF shared_key[d] = "none"
       THEN UNCHANGED <<queueVars, taskVars, challenge>>
       ELSE /\ CanSend
            /\ challenge' = [challenge EXCEPT ![d] = "AUTH_ID_CONFIRM"]
            /\ _send_data(d, Frame("AUTH_ID_CONFIRM", "hmac"), FALSE)
            /\ UNCHANGED hasQueue
    /\ UNCHANGED <<scanVars, workerVars, lastStarted, begun, scannerFaulty, extVars,
                   resets, nuki_public_key, shared_key, pairVars, linkVars,
                   callVars, last_state, config, device_type, obsVars>>

\* ERROR_REPORT: NOT_PAIRING is logged ("UNPAIRED!") and the process exits; any
\* other code is logged and nothing else happens.
NotifyErrorReport(d) ==
    /\ Arrived(d, "ERROR_REPORT")
    /\ Consumed(d)
    /\ exited' = (exited \/ Head(replies[d]).data.code = "NOT_PAIRING")
    /\ errorReported' = [errorReported EXCEPT ![d] = TRUE]
    /\ UNCHANGED <<queueVars, scanVars, workerVars, taskVars, lastStarted,
                   begun, scannerFaulty, beaconVars, startVars, codecVars,
                   batteryVars, auxVars, resets, credVars, pairing_callback,
                   paired, linkVars, callVars, nukiVars, obsVars>>

\* ------------------------------ Nuki.update_state / get_config / lock_action ...
\* Every operation sets _challenge_command, builds its request frame and awaits
\* _send_data; lock, unlock and unlatch then store the optimistic lock state.
ChallengeOf(op, a) ==
    CASE op = "update_state" -> "KEYTURNER_STATES"
      [] op = "get_config"   -> "REQUEST_CONFIG"
      [] op = "lock"         -> "LOCK"
      [] op = "unlock"       -> "UNLOCK"
      [] op = "unlatch"      -> "UNLATCH"
      [] OTHER               -> a

RequestOf(op) ==
    IF op = "update_state" THEN Frame("REQUEST_DATA", "KEYTURNER_STATES")
    ELSE Frame("REQUEST_DATA", "CHALLENGE")

Begin(op, d, a) ==
    /\ hasQueue
    /\ CanSubmit
    /\ begun < MaxOps
    /\ begun' = begun + 1
    /\ challenge' = [challenge EXCEPT ![d] = ChallengeOf(op, a)]
    /\ _send_data(d, RequestOf(op), TRUE)
    /\ calls' = calls \cup {NewCall(op, d, a, nextTask)}
    /\ errorReported' = [errorReported EXCEPT ![d] = FALSE]
    /\ UNCHANGED <<hasQueue, scanVars, workerVars, lastStarted, scannerFaulty,
                   beaconVars, startVars, codecVars, batteryVars, auxVars,
                   resets, credVars, pairVars, linkVars, lastReturn,
                   last_state, config, device_type, obsVars, lockVars>>

\* An operation that stores no optimistic state: the value stays what it was.
OptimisticStateLocked(op) == "LOCKED"

OptimisticState(op) ==
    CASE op = "lock"   -> "LOCKING"
      [] op = "unlock" -> "UNLOCKING"
      [] OTHER         -> "UNLATCHING"

update_state(d) == Begin("update_state", d, "none")
get_config(d) == Begin("get_config", d, "none")
lock_action(d, a) == Begin("lock_action", d, a)
lock(d) == Begin("lock", d, "none")
unlock(d) == Begin("unlock", d, "none")
unlatch(d) == Begin("unlatch", d, "none")

\* What `await self._send_data(...)` gives the operation: _send_data returns
\* whatever add_task gave it, and raises what add_task raised.
SendOutcome(c) == IF tasks[c.task].fut.tag = "result" THEN "done" ELSE "raised"

\* `await self._send_data(...)` is over; update_state, get_config, lock_action
\* and pair return here.
ReturnFromSend(c) ==
    /\ Resumable(c)
    /\ c.op \in {"update_state", "get_config", "lock_action", "pair"}
    /\ calls' = calls \ {c}
    /\ lastReturn' = Return(c, SendOutcome(c))
    /\ tasks' = Forget(c.task)
    /\ UNCHANGED <<queueVars, scanVars, workerVars, nextTask, lastStarted,
                   begun, scannerFaulty, extVars, resets, credVars, pairVars, linkVars,
                   nukiVars, obsVars, lockVars>>

\* lock, unlock, unlatch: self.last_state['lock_state'] = LockState.LOCKING ...;
\* with last_state None the assignment raises TypeError.
ReturnFromLock(c) ==
    /\ Resumable(c)
    /\ c.op \in {"lock", "unlock", "unlatch"}
    /\ calls' = calls \ {c}
    /\ tasks' = Forget(c.task)
    /\ IF SendOutcome(c) = "done" /\ last_state[c.dev].present
       THEN /\ last_state' = [last_state EXCEPT
                                ![c.dev].lock_state = OptimisticState(c.op)]
            /\ lastReturn' = Return(c, "done")
       ELSE /\ lastReturn' = Return(c, "raised")
            /\ UNCHANGED last_state
    /\ UNCHANGED <<queueVars, scanVars, workerVars, nextTask, lastStarted,
                   begun, scannerFaulty, extVars, resets, credVars, pairVars, linkVars,
                   config, challenge, device_type, obsVars, lockVars>>

\* Nuki.pair: the callback and _challenge_command are set, the device is
\* connected (not through the queue), then the request for the lock's public key
\* goes to _send_data.  An exception of connect ends pair; so does add_task on a
\* TaskQueue that was never started, whose _queue is None.
Raised(op, d, error) ==
    [op |-> op, dev |-> d, how |-> "raised", got |-> Exception(error),
     body |-> Returns("None"), sent |-> "unsent", status |-> FALSE]

pair(d) ==
    /\ begun < MaxOps
    /\ begun' = begun + 1
    /\ pairing_callback' = [pairing_callback EXCEPT ![d] = TRUE]
    /\ challenge' = [challenge EXCEPT ![d] = "PUBLIC_KEY"]
    /\ \E ok \in BOOLEAN :
         /\ connect(d, ok)
         /\ IF connect_raises(d, ok)
            THEN /\ lastReturn' = Raised("pair", d, "BleakError")
                 /\ UNCHANGED <<queueVars, taskVars, calls>>
            ELSE IF ~hasQueue
            THEN /\ lastReturn' = Raised("pair", d, "AttributeError")
                 /\ UNCHANGED <<queueVars, taskVars, calls>>
            ELSE /\ CanSend
                 /\ _send_data(d, Frame("REQUEST_DATA", "PUBLIC_KEY"), TRUE)
                 /\ calls' = calls \cup {NewCall("pair", d, "none", nextTask)}
                 /\ UNCHANGED <<hasQueue, lastReturn>>
    /\ UNCHANGED <<scanVars, workerVars, lastStarted, scannerFaulty, extVars, resets,
                   credVars, paired, exited, orphaned, last_state, config,
                   obsVars, lockVars>>

\* ------------------------------------------- NukiManager._detected_ibeacon
\* tx_p & 0x1, as the handler keeps it while it awaits.
Flag(event) == IF event THEN "event" ELSE "no_event"

\* Nuki.set_ble_device: a new client object replaces self._client.
set_ble_device(d) ==
    /\ orphaned' = [orphaned EXCEPT ![d] = @ \/ connected[d]]
    /\ connected' = [connected EXCEPT ![d] = FALSE]
    /\ replies' = [replies EXCEPT ![d] = <<>>]

\* A handler that looks at the config before it looks at the state.
AfterIdentifyConfigFirst(rest, live, d, event) ==
    IF ~config[d].present
    THEN /\ CanSubmit
         /\ challenge' = [challenge EXCEPT ![d] = "REQUEST_CONFIG"]
         /\ EnqueueOn(live, "send", d, Returns("None"),
                      Frame("REQUEST_DATA", "CHALLENGE"), TRUE)
         /\ calls' = rest \cup {NewCall("beacon", d, Flag(event), nextTask)}
         /\ UNCHANGED hasQueue
    ELSE IF ~last_state[d].present \/ event
    THEN /\ CanSubmit
         /\ challenge' = [challenge EXCEPT ![d] = "KEYTURNER_STATES"]
         /\ EnqueueOn(live, "send", d, Returns("None"),
                      Frame("REQUEST_DATA", "KEYTURNER_STATES"), TRUE)
         /\ calls' = rest \cup {NewCall("beacon", d, Flag(event), nextTask)}
         /\ UNCHANGED hasQueue
    ELSE /\ calls' = rest
         /\ tasks' = live
         /\ UNCHANGED <<queueVars, nextTask, challenge>>

\* The second part of the handler: update_state when there is no last_state or
\* the beacon's event flag is set, else get_config when there is no config.
\* (`rest`, `live`: the other awaiting coroutines and the futures still of use.)
AfterIdentify(rest, live, d, event) ==
    IF ~last_state[d].present \/ event
    THEN /\ CanSubmit
         /\ challenge' = [challenge EXCEPT ![d] = "KEYTURNER_STATES"]
         /\ EnqueueOn(live, "send", d, Returns("None"),
                      Frame("REQUEST_DATA", "KEYTURNER_STATES"), TRUE)
         /\ calls' = rest \cup {NewCall("beacon", d, Flag(event), nextTask)}
         /\ UNCHANGED hasQueue
    ELSE IF ~config[d].present
    THEN /\ CanSubmit
         /\ challenge' = [challenge EXCEPT ![d] = "REQUEST_CONFIG"]
         /\ EnqueueOn(live, "send", d, Returns("None"),
                      Frame("REQUEST_DATA", "CHALLENGE"), TRUE)
         /\ calls' = rest \cup {NewCall("beacon", d, Flag(event), nextTask)}
         /\ UNCHANGED hasQueue
    ELSE /\ calls' = rest
         /\ tasks' = live
         /\ UNCHANGED <<queueVars, nextTask, challenge>>

\* The handler from set_ble_device on: the connection for the identification of
\* an unknown device is queued, or the update goes on at once.
HandleBeacon(d, event) ==
    /\ adapterScanning
    /\ hasQueue
    /\ set_ble_device(d)
    /\ IF device_type[d] = "none"
       THEN /\ CanSubmit
            /\ Enqueue("conn", d, Returns("None"), NoFrame, TRUE)
            /\ calls' = calls \cup {[NewCall("beacon", d, Flag(event), nextTask)
                                       EXCEPT !.pc = "await_conn"]}
            /\ UNCHANGED <<hasQueue, challenge>>
       ELSE AfterIdentify(calls, tasks, d, event)
    /\ UNCHANGED <<scanVars, workerVars, lastStarted, begun, scannerFaulty,
                   resets, credVars, pairVars, lastReturn, last_state, config,
                   device_type, obsVars, lockCount, lockState, outstanding,
                   timedOut>>

\* An advertisement of a registered device that passes the filters (Apple
\* manufacturer data, iBeacon, not a duplicate); `event` is bit 0 of tx_p.
_detected_ibeacon(d, event) ==
    /\ HandleBeacon(d, event)
    /\ UNCHANGED extVars

\* Nuki.just_got_beacon: a beacon was accepted at most one second ago; if not,
\* this one is accepted and the time is taken.
Second == 2

seen_recentlyStrict(d) ==
    last_ibeacon[d] # Never /\ now - last_ibeacon[d] < Second

seen_recently(d) ==
    last_ibeacon[d] # Never /\ now - last_ibeacon[d] <= Second

just_got_beacon(d) ==
    last_ibeacon' = [last_ibeacon EXCEPT ![d] = IF seen_recently(d) THEN @ ELSE now]

\* An advertisement with manufacturer data 76 and type 0x02 of a registered
\* device, at the time `now`: dropped as a duplicate, or handled.
Advertisement(d, event) ==
    /\ adapterScanning
    /\ hasQueue
    /\ just_got_beacon(d)
    /\ lastAdvert' = [lastAdvert EXCEPT
                        ![d] = [at |-> now, accepted |-> ~seen_recently(d)]]
    /\ UNCHANGED now
    /\ IF seen_recently(d)
       THEN UNCHANGED <<queueVars, scanVars, workerVars, taskVars, lastStarted,
                        begun, scannerFaulty, resets, credVars, pairVars,
                        linkVars, callVars, nukiVars, obsVars, lockVars>>
       ELSE HandleBeacon(d, event)
    /\ UNCHANGED <<startVars, codecVars, batteryVars, errorReported, auxVars>>

\* Half a second passes.
Tick ==
    /\ now < MaxTime
    /\ now' = now + 1
    /\ UNCHANGED <<queueVars, scanVars, workerVars, taskVars, lastStarted,
                   begun, scannerFaulty, resets, credVars, pairVars, linkVars,
                   callVars, nukiVars, obsVars, lockVars, last_ibeacon,
                   lastAdvert, startVars, codecVars, batteryVars, errorReported, auxVars>>

\* `await self.taskQueue.add_task(conn)` is over: the handler goes on.
BeaconIdentified(c) ==
    /\ Resumable(c)
    /\ c.op = "beacon"
    /\ c.pc = "await_conn"
    /\ AfterIdentify(calls \ {c}, Forget(c.task), c.dev, c.arg = Flag(TRUE))
    /\ UNCHANGED <<scanVars, workerVars, lastStarted, begun, scannerFaulty, extVars,
                   resets, credVars, pairVars, linkVars, lastReturn,
                   last_state, config, device_type, obsVars, lockVars>>

\* `await nuki.update_state()` / `await nuki.get_config()` is over: the handler ends.
BeaconDone(c) ==
    /\ Resumable(c)
    /\ c.op = "beacon"
    /\ c.pc = "await"
    /\ calls' = calls \ {c}
    /\ tasks' = Forget(c.task)
    /\ UNCHANGED <<queueVars, scanVars, workerVars, nextTask, lastStarted,
                   begun, scannerFaulty, extVars, resets, credVars, pairVars, linkVars,
                   lastReturn, nukiVars, obsVars, lockVars>>

\* ----------------------------------------------------------- environment
\* The link to a device drops (out of range, the lock closes it).
ConnectionLost(d) ==
    /\ connected[d] \/ orphaned[d]
    /\ connected' = [connected EXCEPT ![d] = FALSE]
    /\ orphaned' = [orphaned EXCEPT ![d] = FALSE]
    /\ replies' = [replies EXCEPT ![d] = <<>>]
    /\ UNCHANGED <<queueVars, scanVars, workerVars, taskVars, lastStarted,
                   begun, scannerFaulty, extVars, resets, credVars, pairVars, callVars,
                   nukiVars, obsVars, lockCount, lockState, outstanding,
                   timedOut>>

\* A lock whose update count starts again at 0 after MaxCount.
LockCountWraps(d) ==
    /\ lockCount' = [lockCount EXCEPT ![d] = (@ + 1) % (MaxCount + 1)]
    /\ UNCHANGED <<queueVars, scanVars, workerVars, taskVars, lastStarted,
                   begun, scannerFaulty, extVars, resets, credVars, pairVars, linkVars,
                   callVars, nukiVars, obsVars, replies, lockState,
                   outstanding, timedOut>>

\* The lock's configuration is changed (by its app): its update count moves on.
LockConfigChanged(d) ==
    /\ lockCount[d] < MaxCount
    /\ lockCount' = [lockCount EXCEPT ![d] = @ + 1]
    /\ UNCHANGED <<queueVars, scanVars, workerVars, taskVars, lastStarted,
                   begun, scannerFaulty, extVars, resets, credVars, pairVars, linkVars,
                   callVars, nukiVars, obsVars, replies, lockState,
                   outstanding, timedOut>>

\* command_timeout seconds pass after a request was written and no notification
\* came.  Nuki.command_timeout is stored by __init__ and read nowhere, and
\* _command_timeout_task is never created: nothing of the program reacts.
CommandTimeout(d) ==
    /\ outstanding[d]
    /\ replies[d] = <<>>
    /\ ~timedOut[d]
    /\ timedOut' = [timedOut EXCEPT ![d] = TRUE]
    /\ UNCHANGED <<queueVars, scanVars, workerVars, taskVars, lastStarted,
                   begun, scannerFaulty, extVars, resets, credVars, pairVars, linkVars,
                   callVars, nukiVars, obsVars, replies, lockCount, lockState,
                   outstanding>>

\* What the lock can send without being asked: a CHALLENGE or a CONFIG nobody
\* requested, and the KEYTURNER_STATES it pushes when its state changes.
Pushed(d) ==
    {Notification("CHALLENGE", NoState),
     Notification("CONFIG", Config(d, lockCount[d])),
     Notification("KEYTURNER_STATES", State(lockCount[d], lockState[d], 0))}

\* last_lock_action_completion_status as the lock reports it: 0, or the code
\* of how the last action ended.
Completion == {0, 3}
PushedResults(d) ==
    {Notification("KEYTURNER_STATES", State(lockCount[d], lockState[d], s)) :
        s \in Completion}

PushedStates(d) == {n \in Pushed(d) : n.cmd = "KEYTURNER_STATES"}

\* A notification arrives on the open link while no request of the session is
\* waiting for its answer.
Unsolicited(d, n) ==
    /\ connected[d]
    /\ ~outstanding[d]
    /\ replies[d] = <<>>
    /\ replies' = [replies EXCEPT ![d] = <<n>>]
    /\ UNCHANGED <<queueVars, scanVars, workerVars, taskVars, lastStarted,
                   begun, scannerFaulty, extVars, resets, credVars, pairVars, linkVars,
                   callVars, nukiVars, obsVars, lockCount, lockState,
                   outstanding, timedOut>>

\* ------------------------------------------------ WebServer._check_token
\* WebServer._token, and the key of _hashed_token_box that is its SHA-256.
_token == "token0"
hashed_token(token) == IF token = _token THEN "sk0" ELSE "sk1"

\* hashlib.sha256 of a text: equal digests for equal texts only.
sha256(text) == <<"sha256", text>>

\* A string of hexadecimal digits, in either case, and bytes.fromhex of it.
hex(bytes, upper) == [digits |-> bytes, upper |-> upper]
fromhex(text) == text.digits

\* The timestamps and the random numbers clients put into their tokens.
TokenTimes == {0, 30, 90}
Rnr == {7}
\* The 24 bytes of a nonce, all alike.
TokenNonce(b) == [i \in 1..24 |-> b]
TokenNonces == {TokenNonce(0), TokenNonce(1)}

\* The ctokens of the requests: f"{ts},{rnr}" in a secret box made with the
\* hash of the token the client has, which may be the wrong one.
CTokens ==
    {BoxEncrypt(hashed_token(token), TokenNonce(0), <<ts, rnr>>) :
        token \in {_token, "wrong"}, ts \in TokenTimes, rnr \in Rnr}

\* The ctokens and nonces of the requests on which _hashed_token_box.decrypt
\* gives a plaintext; on the others it raises CryptoError.
Decrypts ==
    {<<q[1], q[2]>> :
        q \in {q \in CTokens \X TokenNonces : BoxOpens(hashed_token(_token), q[2], q[1])}}

\* request.query, a mapping from parameter names to values.
Has(request, name) == name \in DOMAIN request
HashRequests ==
    {[hash |-> sha256(<<ts, rnr, token>>), ts |-> ts, rnr |-> rnr] :
        ts \in {0}, rnr \in Rnr, token \in {_token, "wrong"}}
TokenRequests == {[token |-> token] : token \in {_token, "wrong"}}
CTokenRequests ==
    {[ctoken |-> hex(c, upper), nonce |-> hex(n, FALSE)] :
        c \in CTokens, upper \in BOOLEAN, n \in TokenNonces}
OtherRequests ==
    {[url |-> "u"]}
      \cup {[token |-> "wrong", ctoken |-> hex(c, FALSE), nonce |-> hex(TokenNonce(0), FALSE)] :
               c \in CTokens}
Requests == HashRequests \cup TokenRequests \cup CTokenRequests \cup OtherRequests

\* The end of a call: what it returned, or the exception it raised.
Ended(result) == [result |-> result, purged |-> <<>>]
Bool(b) == Ended(IF b THEN "True" ELSE "False")

NoTokens ==
    /\ utcnow = 0
    /\ _used_token = <<>>
    /\ accepted = [c \in CTokens |-> 0]
    /\ checked = Ended("none")

\* A purge that takes the tokens that have just reached the age, too.
OldAtLimit(diff) == diff >= TOKEN_AGE

\* _clear_old_ctokens: the test on the age of a stored token.
Old(diff) == diff > TOKEN_AGE

\* _clear_old_ctokens: what is left of the store.
_clear_old_ctokens(used) ==
    [ctk \in {c \in DOMAIN used : ~Old(utcnow - used[c])} |-> used[ctk]]

\* _check_token on a ctoken: an unknown one is decrypted (CryptoError leaves
\* it unrecorded), recorded with its own timestamp and accepted if recent.
CheckCToken(request) ==
    LET nonce == fromhex(request.nonce)
        ctoken == fromhex(request.ctoken)
        kept == _clear_old_ctokens(_used_token)
    IN  IF ctoken \notin DOMAIN kept
        THEN IF <<ctoken, nonce>> \in Decrypts
             THEN LET ts == BoxMessage(hashed_token(_token), nonce, ctoken)[1]
                      diff == utcnow - ts
                  IN  /\ _used_token' = (ctoken :> ts) @@ kept
                      /\ checked' = [Bool(diff <= TOKEN_AGE) EXCEPT
                                        !.purged = IF ctoken \in DOMAIN _used_token
                                                   THEN ctoken ELSE <<>>]
                      /\ accepted' = IF diff <= TOKEN_AGE
                                     THEN [accepted EXCEPT ![ctoken] = IF @ < 2 THEN @ + 1 ELSE @]
                                     ELSE accepted
             ELSE /\ _used_token' = kept
                  /\ checked' = Ended("CryptoError")
                  /\ UNCHANGED accepted
        ELSE /\ _used_token' = kept
             /\ checked' = Bool(FALSE)
             /\ UNCHANGED accepted

\* WebServer._check_token.
_check_token(request) ==
    /\ IF Has(request, "hash")
       THEN /\ checked' = Bool(sha256(<<request.ts, request.rnr, _token>>) = request.hash)
            /\ UNCHANGED <<_used_token, accepted>>
       ELSE IF Has(request, "token")
       THEN /\ checked' = Bool(_token = request.token)
            /\ UNCHANGED <<_used_token, accepted>>
       ELSE IF Has(request, "ctoken")
       THEN CheckCToken(request)
       ELSE /\ checked' = Bool(FALSE)
            /\ UNCHANGED <<_used_token, accepted>>
    /\ UNCHANGED <<queueVars, scanVars, workerVars, taskVars, lastStarted, begun,
                   scannerFaulty, resets, credVars, pairVars, linkVars, callVars,
                   nukiVars, obsVars, lockVars, beaconVars, startVars, codecVars,
                   batteryVars, errorReported, lastStop, entryPoint, utcnow>>

\* The clock of the web server goes on.
Pass(seconds) ==
    /\ utcnow + seconds <= MaxClock
    /\ utcnow' = utcnow + seconds
    /\ UNCHANGED <<queueVars, scanVars, workerVars, taskVars, lastStarted, begun,
                   scannerFaulty, resets, credVars, pairVars, linkVars, callVars,
                   nukiVars, obsVars, lockVars, beaconVars, startVars, codecVars,
                   batteryVars, errorReported, lastStop, entryPoint,
                   _used_token, accepted, checked>>

\* ------------------------------------------------------------------- Init
\* Nuki.__init__: auth_id and nuki_public_key as given (from the configuration
\* file for the devices in `known`, None for a device to be paired); the shared
\* key is derived when a lock public key was given.
Credentials(known) ==
    /\ auth_id = [d \in Devices |-> IF d \in known THEN "id0" ELSE "none"]
    /\ nuki_public_key = [d \in Devices |-> IF d \in known THEN "pk0" ELSE "none"]
    /\ shared_key = [d \in Devices |->
                       Derive(IF d \in known THEN "pk0" ELSE "none")]

NoBeacon ==
    /\ now = 0
    /\ last_ibeacon = [d \in Devices |-> Never]
    /\ lastAdvert = [d \in Devices |-> NoAdvert]

\* No frame is being encoded or decoded.
NoTraffic ==
    /\ plain = NoPlain
    /\ wire = NoWire
    /\ parsed = NotParsed

\* start_scanning has not been entered; ATTEMPTS calls of the scanner's start()
\* that would all succeed.
NotStarting ==
    /\ attempt = 0
    /\ scanResult = "none"

NoStartFailure == startOutcomes = [i \in 1..ATTEMPTS |-> TRUE]

\* What the further parts of the model start from.
\* No battery property has been read.
NoReading ==
    /\ critical_battery_state = 0
    /\ battery = NotRead

NoError ==
    /\ errorReported = [d \in Devices |-> FALSE]
    /\ lastStop = NotStopped
    /\ entryPoint = "none"
    /\ NoTokens

AtRest ==
    NoBeacon /\ NotStarting /\ NoStartFailure /\ NoTraffic /\ NoReading /\ NoError

NotPairing ==
    /\ pairing_callback = [d \in Devices |-> FALSE]
    /\ paired = [d \in Devices |-> 0]
    /\ exited = FALSE

\* NukiManager.__init__, TaskQueue.__init__, Nuki.__init__ (with credentials
\* for the devices in `known`) and the lock at rest.
Built(known) ==
    /\ hasQueue = FALSE
    /\ queue = <<>>
    /\ scanning = FALSE
    /\ adapterScanning = FALSE
    /\ scannerFaulty \in BOOLEAN
    /\ workerPc = [w \in WorkerIds |-> "none"]
    /\ workerTask = [w \in WorkerIds |-> 0]
    /\ workerTry = [w \in WorkerIds |-> 0]
    /\ nextTask = 1
    /\ tasks = <<>>
    /\ lastStarted = 0
    /\ begun = 0
    /\ connected = [d \in Devices |-> FALSE]
    /\ orphaned = [d \in Devices |-> FALSE]
    /\ calls = {}
    /\ lastReturn = NoReturn
    /\ last_state = [d \in Devices |-> NoState]
    /\ config = [d \in Devices |-> NoConfig]
    /\ challenge = [d \in Devices |-> "none"]
    /\ device_type = [d \in Devices |-> "none"]
    /\ callback = FALSE
    /\ lastSeen = [d \in Devices |-> NotSeen]
    /\ replies = [d \in Devices |-> <<>>]
    /\ lockCount = [d \in Devices |-> 0]
    /\ lockState = [d \in Devices |-> "LOCKED"]
    /\ outstanding = [d \in Devices |-> FALSE]
    /\ timedOut = [d \in Devices |-> FALSE]
    /\ resets = [d \in Devices |-> 0]
    /\ Credentials(known)
    /\ NotPairing

Constructed(known) == Built(known) /\ AtRest

Init == Constructed(Devices)

\* The worker's loop around `await task()`.
WorkerLoop(w) ==
    \/ WorkerTop(w)
    \/ WorkerWaitGet(w)
    \/ WorkerIdleTimeout(w)
    \/ WorkerCleanup(w)
    \/ WorkerRescan(w)
    \/ WorkerGet(w)
    \/ WorkerStopScan(w)

\* The bridge from construction on, fed by advertisements: the queue, its worker,
\* the scanner and the links to the devices.
Next ==
    \/ start
    \/ \E w \in WorkerIds : WorkerInitial(w)
    \/ \E w \in WorkerIds : WorkerLoop(w)
    \/ \E w \in WorkerIds : WorkerRunConn(w)
    \/ \E w \in WorkerIds : WorkerSendAttempt(w)
    \/ \E d \in Devices, e \in BOOLEAN : _detected_ibeacon(d, e)
    \/ \E c \in calls : BeaconIdentified(c)
    \/ \E c \in calls : BeaconDone(c)
    \/ \E d \in Devices : ConnectionLost(d)

Spec == Init /\ [][Next]_vars

\* The queue alone, fed by clients of add_task with coroutines of their own.
CallNext ==
    \/ start
    \/ \E w \in WorkerIds : WorkerInitial(w)
    \/ \E w \in WorkerIds : WorkerLoop(w)
    \/ \E w \in WorkerIds : WorkerRunCall(w)
    \/ \E b \in Bodies : add_task(b)
    \/ \E c \in calls : add_task_return(c)

CallSpec == Init /\ [][CallNext]_vars

\* The event loop runs every coroutine that can run: the worker, and the callers
\* whose future is resolved.
FairCallSpec ==
    /\ CallSpec
    /\ \A w \in WorkerIds : WF_vars(WorkerInitial(w) \/ WorkerLoop(w) \/ WorkerRunCall(w))
    /\ WF_vars(\E c \in calls : add_task_return(c))

\* One device's session.  The bridge has had its first exchange with lock A and
\* has gone idle: an advertisement of A, the conn task, update_state, the
\* KEYTURNER_STATES reply, the chained get_config, the CHALLENGE and CONFIG
\* replies, then 10 s without a task, the cleanup and the restart of the scan.
\* A's state and config are known, nothing is connected, the worker scans and
\* is blocked in get(); B has not been heard of.  Task ids count from here.
Known == {"A"}

Idle(known) ==
    /\ hasQueue = TRUE
    /\ queue = <<>>
    /\ scanning = TRUE
    /\ adapterScanning = TRUE
    /\ scannerFaulty = FALSE
    /\ workerPc = [w \in WorkerIds |-> IF w = 1 THEN "get" ELSE "none"]
    /\ workerTask = [w \in WorkerIds |-> 0]
    /\ workerTry = [w \in WorkerIds |-> 0]
    /\ nextTask = 1
    /\ tasks = <<>>
    /\ lastStarted = 0
    /\ begun = 0
    /\ connected = [d \in Devices |-> FALSE]
    /\ orphaned = [d \in Devices |-> FALSE]
    /\ calls = {}
    /\ lastReturn = NoReturn
    /\ last_state = [d \in Devices |-> IF d \in known THEN State(0, "LOCKED", 0)
                                        ELSE NoState]
    /\ config = [d \in Devices |-> IF d \in known THEN Config(d, 0) ELSE NoConfig]
    /\ challenge = [d \in Devices |-> IF d \in known THEN "REQUEST_CONFIG" ELSE "none"]
    /\ device_type = [d \in Devices |-> IF d \in known THEN DeviceKind[d] ELSE "none"]
    /\ callback = FALSE
    /\ lastSeen = [d \in Devices |-> NotSeen]
    /\ replies = [d \in Devices |-> <<>>]
    /\ lockCount = [d \in Devices |-> 0]
    /\ lockState = [d \in Devices |-> "LOCKED"]
    /\ outstanding = [d \in Devices |-> FALSE]
    /\ timedOut = [d \in Devices |-> FALSE]
    /\ resets = [d \in Devices |-> 0]
    /\ Credentials(Devices)
    /\ NotPairing
    /\ AtRest

SessionInit == Idle(Known)

\* The client operations, their replies and the command timer.
SessionNext ==
    \/ \E w \in WorkerIds : WorkerLoop(w)
    \/ \E w \in WorkerIds : WorkerSendAttempt(w)
    \/ \E d \in Known : update_state(d)
    \/ \E d \in Known : get_config(d)
    \/ \E d \in Known, a \in NukiAction : lock_action(d, a)
    \/ \E d \in Known : lock(d)
    \/ \E d \in Known : unlock(d)
    \/ \E d \in Known : unlatch(d)
    \/ \E c \in calls : ReturnFromSend(c)
    \/ \E c \in calls : ReturnFromLock(c)
    \/ \E d \in Known : NotifyKeyturnerStates(d)
    \/ \E d \in Known : NotifyConfig(d)
    \/ \E d \in Known : NotifyStatus(d)
    \/ \E d \in Known : NotifyChallenge(d)
    \/ \E d \in Known : CommandTimeout(d)
    \/ \E d \in Known : ConnectionLost(d)

SessionSpec == SessionInit /\ [][SessionNext]_vars

\* The paths to the observer: a client registers the callback, the lock's
\* configuration changes, states and configs are requested and arrive.
ObserverNext ==
    \/ \E w \in WorkerIds : WorkerLoop(w)
    \/ \E w \in WorkerIds : WorkerSendAttempt(w)
    \/ \E d \in Known : update_state(d)
    \/ \E d \in Known : get_config(d)
    \/ \E d \in Known, a \in NukiAction : lock_action(d, a)
    \/ \E c \in calls : ReturnFromSend(c)
    \/ \E d \in Known : NotifyKeyturnerStates(d)
    \/ \E c \in calls : ResumeKeyturnerStates(c)
    \/ \E d \in Known : NotifyConfig(d)
    \/ \E d \in Known : NotifyStatus(d)
    \/ \E d \in Known : NotifyChallenge(d)
    \/ SetCallback
    \/ \E d \in Known : LockConfigChanged(d)
    \/ \E d \in Known : ConnectionLost(d)

ObserverSpec == SessionInit /\ [][ObserverNext]_vars

\* Requests and their answers, with a lock that also sends notifications unasked.
StrayNext ==
    \/ \E w \in WorkerIds : WorkerLoop(w)
    \/ \E w \in WorkerIds : WorkerSendAttempt(w)
    \/ \E d \in Known : get_config(d)
    \/ \E d \in Known, a \in NukiAction : lock_action(d, a)
    \/ \E c \in calls : ReturnFromSend(c)
    \/ \E d \in Known : NotifyKeyturnerStates(d)
    \/ \E d \in Known : NotifyConfig(d)
    \/ \E d \in Known : NotifyStatus(d)
    \/ \E d \in Known : NotifyChallenge(d)
    \/ \E d \in Known : \E n \in Pushed(d) : Unsolicited(d, n)
    \/ \E d \in Known : ConnectionLost(d)

StraySpec == SessionInit /\ [][StrayNext]_vars

\* The observer with a lock that pushes its state: states are requested, the
\* lock's configuration changes, and notifications arrive asked and unasked.
OrderNext ==
    \/ \E w \in WorkerIds : WorkerLoop(w)
    \/ \E w \in WorkerIds : WorkerSendAttempt(w)
    \/ \E d \in Known : update_state(d)
    \/ \E c \in calls : ReturnFromSend(c)
    \/ \E d \in Known : NotifyKeyturnerStates(d)
    \/ \E c \in calls : ResumeKeyturnerStates(c)
    \/ \E d \in Known : NotifyConfig(d)
    \/ \E d \in Known : NotifyChallenge(d)
    \/ SetCallback
    \/ \E d \in Known : LockConfigChanged(d)
    \/ \E d \in Known : \E n \in PushedStates(d) : Unsolicited(d, n)
    \/ \E d \in Known : ConnectionLost(d)

OrderSpec == SessionInit /\ [][OrderNext]_vars

\* One device is known, the lock or the opener, and the bridge has just asked
\* for its state: update_state has returned, the KEYTURNER_STATES reply was
\* stored, the link is still open and the worker waits for a task with the
\* 10 s timeout (the scan was stopped before the task ran).  The device pushes
\* the result of its last action, its configuration changes, and the reset
\* tasks wake up.
Listening(k) ==
    /\ hasQueue = TRUE
    /\ queue = <<>>
    /\ scanning = FALSE
    /\ adapterScanning = FALSE
    /\ scannerFaulty = FALSE
    /\ workerPc = [w \in WorkerIds |-> IF w = 1 THEN "wait" ELSE "none"]
    /\ workerTask = [w \in WorkerIds |-> 0]
    /\ workerTry = [w \in WorkerIds |-> 0]
    /\ nextTask = 1
    /\ tasks = <<>>
    /\ lastStarted = 0
    /\ begun = 0
    /\ connected = [d \in Devices |-> d = k]
    /\ orphaned = [d \in Devices |-> FALSE]
    /\ calls = {}
    /\ lastReturn = NoReturn
    /\ last_state = [d \in Devices |-> IF d = k THEN State(0, "LOCKED", 0)
                                        ELSE NoState]
    /\ config = [d \in Devices |-> IF d = k THEN Config(d, 0) ELSE NoConfig]
    /\ challenge = [d \in Devices |-> IF d = k THEN "KEYTURNER_STATES" ELSE "none"]
    /\ device_type = [d \in Devices |-> IF d = k THEN DeviceKind[d] ELSE "none"]
    /\ callback = FALSE
    /\ lastSeen = [d \in Devices |-> NotSeen]
    /\ replies = [d \in Devices |-> <<>>]
    /\ lockCount = [d \in Devices |-> 0]
    /\ lockState = [d \in Devices |-> "LOCKED"]
    /\ outstanding = [d \in Devices |-> FALSE]
    /\ timedOut = [d \in Devices |-> FALSE]
    /\ resets = [d \in Devices |-> 0]
    /\ Credentials(Devices)
    /\ NotPairing
    /\ AtRest

OpenerInit == \E k \in Devices : Listening(k)

Identified(d) == device_type[d] # "none"

OpenerNext ==
    \/ \E w \in WorkerIds : WorkerLoop(w)
    \/ \E w \in WorkerIds : WorkerSendAttempt(w)
    \/ \E d \in Devices : NotifyKeyturnerStates(d)
    \/ \E c \in calls : ResumeKeyturnerStates(c)
    \/ \E d \in Devices : NotifyChallenge(d)
    \/ \E d \in Devices : NotifyConfig(d)
    \/ SetCallback
    \/ \E d \in Devices : Identified(d) /\ LockConfigChanged(d)
    \/ \E d \in Devices : \E n \in PushedResults(d) : Unsolicited(d, n)
    \/ \E d \in Devices : reset_opener_state(d)

OpenerSpec == OpenerInit /\ [][OpenerNext]_vars

\* The event loop runs what is ready: the worker goes on, a handler whose
\* future is set resumes, and the sleep of a reset task ends.
FairOpenerSpec ==
    /\ OpenerSpec
    /\ \A w \in WorkerIds : WF_vars(WorkerLoop(w) \/ WorkerSendAttempt(w))
    /\ WF_vars(\E c \in calls : ResumeKeyturnerStates(c))
    /\ \A d \in Devices :
         WF_vars(NotifyKeyturnerStates(d) \/ NotifyChallenge(d) \/ NotifyConfig(d))
    /\ \A d \in Devices : WF_vars(reset_opener_state(d))

\* ------------------------------------------------- a paired, connected session
\* connect() subscribes to the pairing characteristic as well on every
\* connection, and what arrives on it is parsed without decryption: a PUBLIC_KEY
\* or an AUTH_ID can reach the handler of a paired device at any time.
PushedKeys(d) ==
    {Notification("PUBLIC_KEY", PublicKey("pk1")),
     Notification("AUTH_ID", AuthId("id1"))}

CredNext ==
    \/ \E w \in WorkerIds : WorkerLoop(w)
    \/ \E w \in WorkerIds : WorkerSendAttempt(w)
    \/ \E d \in Devices : NotifyPublicKey(d)
    \/ \E d \in Devices : NotifyAuthId(d)
    \/ \E d \in Devices : NotifyChallenge(d)
    \/ \E d \in Devices : NotifyStatus(d)
    \/ \E d \in Devices : \E n \in PushedKeys(d) : Unsolicited(d, n)

CredSpec == OpenerInit /\ [][CredNext]_vars

\* ------------------------------------------------------------------ pairing
\* The lock answers a frame of the pairing with an ERROR_REPORT instead of the
\* reply that was due.
PairingErrors == {"NOT_PAIRING", "OTHER"}

Rejects(d, code) ==
    /\ connected[d] /\ outstanding[d] /\ replies[d] # <<>>
    /\ Head(replies[d]).cmd \in {"PUBLIC_KEY", "CHALLENGE", "AUTH_ID", "STATUS"}
    /\ replies' = [replies EXCEPT
                     ![d] = <<Notification("ERROR_REPORT", ErrorReport(code))>>
                            \o Tail(@)]
    /\ UNCHANGED <<queueVars, scanVars, workerVars, taskVars, lastStarted,
                   begun, scannerFaulty, extVars, resets, credVars, pairVars, linkVars,
                   callVars, nukiVars, obsVars, lockCount, lockState,
                   outstanding, timedOut>>

\* `--pair` and config.init_config: a manager with the one device to be paired,
\* constructed without auth_id and lock public key, and pair() as the only
\* operation.  Neither of them starts the task queue; start stands for a
\* caller of its own that does.
PairInit == Constructed({})

PairNext ==
    \/ start
    \/ \E w \in WorkerIds : WorkerInitial(w)
    \/ \E w \in WorkerIds : WorkerLoop(w)
    \/ \E w \in WorkerIds : WorkerSendAttempt(w)
    \/ \E d \in Devices : pair(d)
    \/ \E c \in calls : ReturnFromSend(c)
    \/ \E d \in Devices : NotifyPublicKey(d)
    \/ \E d \in Devices : NotifyChallenge(d)
    \/ \E d \in Devices : NotifyAuthId(d)
    \/ \E d \in Devices : NotifyStatus(d)
    \/ \E d \in Devices : NotifyErrorReport(d)
    \/ \E d \in Devices, code \in PairingErrors : Rejects(d, code)

PairSpec == PairInit /\ [][PairNext]_vars

\* The pairing, with AUTH_ID messages on the link that the lock did not make.
ForgedAuthId == Notification("AUTH_ID", SignedAuthId("id2", "forged"))

ForgeNext ==
    \/ start
    \/ \E w \in WorkerIds : WorkerInitial(w)
    \/ \E w \in WorkerIds : WorkerLoop(w)
    \/ \E w \in WorkerIds : WorkerSendAttempt(w)
    \/ \E d \in Known : pair(d)
    \/ \E c \in calls : ReturnFromSend(c)
    \/ \E d \in Known : NotifyPublicKey(d)
    \/ \E d \in Known : NotifyChallenge(d)
    \/ \E d \in Known : NotifyAuthId(d)
    \/ \E d \in Known : NotifyStatus(d)
    \/ \E d \in Known : Unsolicited(d, ForgedAuthId)

ForgeSpec == PairInit /\ [][ForgeNext]_vars

\* ------------------------------------------------- operations on an opener
\* The members of the enumeration OpenerState.
OpenerState == {"UNCALIBRATED", "LOCKED", "RTO_ACTIVE", "OPEN", "OPENING", "UNDEFINED"}

\* The opener B is known and connected, and clients lock, unlock and unlatch it.
OpenerOpsInit == Listening("B")

OpenerOpsNext ==
    \/ \E w \in WorkerIds : WorkerLoop(w)
    \/ \E w \in WorkerIds : WorkerSendAttempt(w)
    \/ lock("B")
    \/ unlock("B")
    \/ unlatch("B")
    \/ \E c \in calls : ReturnFromLock(c)
    \/ NotifyChallenge("B")
    \/ NotifyStatus("B")
    \/ NotifyKeyturnerStates("B")

OpenerOpsSpec == OpenerOpsInit /\ [][OpenerOpsNext]_vars

\* ---------------------------------------------------------- entry points
\* The ways the program gets to send data: config.init_config pairs when the
\* configuration has no smartlock, `--pair` pairs, `--lock` and `--unlock` run
\* one operation (__main__.py), and the web server starts up (the one of
\* web_server.py calls NukiManager.start, the one of __main__.py calls
\* NukiManager.start_scanning).
PairingEntries == {"init_config", "cli_pair"}
CliEntries == {"cli_lock", "cli_unlock"}
EntryPoints == PairingEntries \cup CliEntries \cup {"web_server", "main_web_server"}

\* The device of a pairing entry point is constructed without credentials, the
\* devices of the others with those of the configuration file.
Enter(e) ==
    /\ entryPoint = "none"
    /\ (e \in PairingEntries) = (auth_id["A"] = "none")
    /\ entryPoint' = e
    /\ UNCHANGED <<queueVars, scanVars, workerVars, taskVars, lastStarted, begun,
                   scannerFaulty, resets, credVars, pairVars, linkVars, callVars,
                   nukiVars, obsVars, lockVars, beaconVars, startVars, codecVars,
                   batteryVars, errorReported, lastStop, tokenVars>>

\* loop.create_task(nuki.pair(pairing_completed)); loop.run_forever()
EntryPair(d) == entryPoint \in PairingEntries /\ pair(d)

\* An operation of a device whose manager has no queue: _send_data ends in
\* add_task, whose `await self._queue.put(...)` raises AttributeError on None.
BeginUnstarted(op, d) ==
    /\ ~hasQueue
    /\ begun < MaxOps
    /\ begun' = begun + 1
    /\ challenge' = [challenge EXCEPT ![d] = ChallengeOf(op, "none")]
    /\ lastReturn' = Raised(op, d, "AttributeError")
    /\ UNCHANGED <<queueVars, scanVars, workerVars, taskVars, lastStarted,
                   scannerFaulty, extVars, resets, credVars, pairVars, linkVars,
                   calls, last_state, config, device_type, obsVars, lockVars>>

\* asyncio.run(device.lock()) and asyncio.run(device.unlock())
EntryLock(d) ==
    \/ entryPoint = "cli_lock" /\ BeginUnstarted("lock", d)
    \/ entryPoint = "cli_unlock" /\ BeginUnstarted("unlock", d)

\* WebServer._startup of web_server.py: self.nuki_manager.start()
_startup == entryPoint = "web_server" /\ start

\* WebServer._startup of __main__.py: await self.nuki_manager.start_scanning()
_startup_scanning ==
    /\ entryPoint = "main_web_server"
    /\ ~adapterScanning
    /\ start_scanning(TRUE)
    /\ UNCHANGED <<queueVars, scanning, workerVars, taskVars, lastStarted, begun,
                   scannerFaulty, extVars, resets, credVars, pairVars, linkVars,
                   callVars, nukiVars, obsVars, lockVars>>

\* A request of that web server (/lock, /unlock), and an advertisement of a
\* device it scans for: update_state, or the connect task, goes to add_task.
RequestUnstarted(d) ==
    /\ entryPoint = "main_web_server"
    /\ adapterScanning
    /\ \E op \in {"lock", "unlock"} : BeginUnstarted(op, d)

BeaconUnstarted(d) ==
    /\ entryPoint = "main_web_server"
    /\ adapterScanning
    /\ ~hasQueue
    /\ ~last_state[d].present
    /\ set_ble_device(d)
    /\ challenge' = [challenge EXCEPT ![d] = IF device_type[d] = "none" THEN @
                                             ELSE "KEYTURNER_STATES"]
    /\ lastReturn' = Raised("beacon", d, "AttributeError")
    /\ UNCHANGED <<queueVars, scanVars, workerVars, taskVars, lastStarted, begun,
                   scannerFaulty, extVars, resets, credVars, pairVars, calls,
                   last_state, config, device_type, obsVars, lockCount,
                   lockState, outstanding, timedOut>>

EntryInit == Constructed({}) \/ Constructed(Known)

EntryNext ==
    \/ \E e \in EntryPoints : Enter(e)
    \/ \E d \in Known : EntryPair(d)
    \/ \E d \in Known : EntryLock(d)
    \/ _startup
    \/ _startup_scanning
    \/ \E d \in Known : RequestUnstarted(d)
    \/ \E d \in Known : BeaconUnstarted(d)
    \/ \E w \in WorkerIds : WorkerInitial(w)
    \/ \E w \in WorkerIds : WorkerLoop(w)
    \/ \E w \in WorkerIds : WorkerRunConn(w)
    \/ \E w \in WorkerIds : WorkerSendAttempt(w)
    \/ \E d \in Known, e \in BOOLEAN : _detected_ibeacon(d, e)
    \/ \E c \in calls : BeaconIdentified(c)
    \/ \E c \in calls : BeaconDone(c)
    \/ \E d \in Known : lock(d)
    \/ \E c \in calls : ReturnFromLock(c)

EntrySpec == EntryInit /\ [][EntryNext]_vars

\* ---------------------------------------------------------- request tokens
\* Requests come to the web server while time passes.
Steps == {1, 30}
TokenInit == Constructed(Known)
TokenNext ==
    \/ \E request \in Requests : _check_token(request)
    \/ \E seconds \in Steps : Pass(seconds)
TokenSpec == TokenInit /\ [][TokenNext]_vars

\* ------------------------------------------------------- beacons in time
\* The scanning bridge and the known device A: its advertisements arrive as
\* time passes, the worker runs what they queue.  (While the worker waits for
\* a task the scan is stopped and no advertisement arrives, so the wait always
\* ends in its timeout.)
BeaconNext ==
    \/ \E w \in WorkerIds : WorkerTop(w)
    \/ \E w \in WorkerIds : WorkerIdleTimeout(w)
    \/ \E w \in WorkerIds : WorkerCleanup(w)
    \/ \E w \in WorkerIds : WorkerRescan(w)
    \/ \E w \in WorkerIds : WorkerGet(w)
    \/ \E w \in WorkerIds : WorkerStopScan(w)
    \/ \E w \in WorkerIds : WorkerSendAttempt(w)
    \/ \E d \in Known, e \in BOOLEAN : Advertisement(d, e)
    \/ \E c \in calls : BeaconDone(c)
    \/ Tick

BeaconSpec == SessionInit /\ [][BeaconNext]_vars

\* ----------------------------------------------------------- start_scanning
\* One call of start_scanning on the constructed bridge, for every course the
\* scanner's start() can take over ATTEMPTS calls.
StartInit ==
    /\ Built(Devices)
    /\ NoBeacon
    /\ NotStarting
    /\ NoTraffic
    /\ NoReading
    /\ NoError
    /\ startOutcomes \in [1..ATTEMPTS -> BOOLEAN]

StartNext == start_scanning_attempt

StartSpec == StartInit /\ [][StartNext]_vars

\* ------------------------------------------------------------ advertisements
\* The manager scanning with an idle worker, for a device of which the kind,
\* the state and the config each are known or not (a state or a config is only
\* ever stored over a connection, which identifies the kind).
Knowing(typed, stated, configured) ==
    /\ hasQueue = TRUE
    /\ queue = <<>>
    /\ scanning = TRUE
    /\ adapterScanning = TRUE
    /\ scannerFaulty = FALSE
    /\ workerPc = [w \in WorkerIds |-> IF w = 1 THEN "get" ELSE "none"]
    /\ workerTask = [w \in WorkerIds |-> 0]
    /\ workerTry = [w \in WorkerIds |-> 0]
    /\ nextTask = 1
    /\ tasks = <<>>
    /\ lastStarted = 0
    /\ begun = 0
    /\ connected = [d \in Devices |-> FALSE]
    /\ orphaned = [d \in Devices |-> FALSE]
    /\ calls = {}
    /\ lastReturn = NoReturn
    /\ last_state = [d \in Devices |-> IF d \in Known /\ stated
                                        THEN State(0, "LOCKED", 0) ELSE NoState]
    /\ config = [d \in Devices |-> IF d \in Known /\ configured
                                    THEN Config(d, 0) ELSE NoConfig]
    /\ challenge = [d \in Devices |-> "none"]
    /\ device_type = [d \in Devices |-> IF d \in Known /\ typed
                                         THEN DeviceKind[d] ELSE "none"]
    /\ callback = FALSE
    /\ lastSeen = [d \in Devices |-> NotSeen]
    /\ replies = [d \in Devices |-> <<>>]
    /\ lockCount = [d \in Devices |-> 0]
    /\ lockState = [d \in Devices |-> "LOCKED"]
    /\ outstanding = [d \in Devices |-> FALSE]
    /\ timedOut = [d \in Devices |-> FALSE]
    /\ resets = [d \in Devices |-> 0]
    /\ Credentials(Devices)
    /\ NotPairing
    /\ AtRest

KindInit ==
    \E typed \in BOOLEAN, stated \in BOOLEAN, configured \in BOOLEAN :
        /\ (stated \/ configured) => typed
        /\ Knowing(typed, stated, configured)

KindNext ==
    \/ \E w \in WorkerIds : WorkerLoop(w)
    \/ \E w \in WorkerIds : WorkerRunConn(w)
    \/ \E w \in WorkerIds : WorkerSendAttempt(w)
    \/ \E d \in Known, e \in BOOLEAN : _detected_ibeacon(d, e)
    \/ \E c \in calls : BeaconIdentified(c)
    \/ \E c \in calls : BeaconDone(c)
    \/ \E d \in Known : NotifyKeyturnerStates(d)
    \/ \E d \in Known : NotifyChallenge(d)
    \/ \E d \in Known : NotifyConfig(d)

KindSpec == KindInit /\ [][KindNext]_vars

\* ------------------------------------------------------------ interleaving
\* The session of a known device with every source of operations at once: the
\* clients of the web server, and the advertisements that make the manager
\* call update_state on the same device.
InterleaveNext ==
    \/ \E w \in WorkerIds : WorkerLoop(w)
    \/ \E w \in WorkerIds : WorkerSendAttempt(w)
    \/ \E d \in Known : update_state(d)
    \/ \E d \in Known : get_config(d)
    \/ \E d \in Known, a \in NukiAction : lock_action(d, a)
    \/ \E d \in Known : lock(d)
    \/ \E c \in calls : ReturnFromSend(c)
    \/ \E c \in calls : ReturnFromLock(c)
    \/ \E d \in Known, e \in BOOLEAN : _detected_ibeacon(d, e)
    \/ \E c \in calls : BeaconDone(c)
    \/ \E d \in Known : NotifyKeyturnerStates(d)
    \/ \E d \in Known : NotifyConfig(d)
    \/ \E d \in Known : NotifyStatus(d)
    \/ \E d \in Known : NotifyChallenge(d)

InterleaveSpec == SessionInit /\ [][InterleaveNext]_vars

\* The same on a device of which neither state nor config has been fetched.
FreshInit == Idle({})
FreshSpec == FreshInit /\ [][InterleaveNext]_vars

\* ------------------------------------------------------------------ errors
\* A normal exchange that the lock may answer with an ERROR_REPORT, and a lock
\* that may send a CHALLENGE when no request is outstanding.
ErrorNext ==
    \/ \E w \in WorkerIds : WorkerLoop(w)
    \/ \E w \in WorkerIds : WorkerSendAttempt(w)
    \/ \E d \in Known : get_config(d)
    \/ \E d \in Known, a \in NukiAction : lock_action(d, a)
    \/ \E c \in calls : ReturnFromSend(c)
    \/ \E d \in Known : Rejects(d, "OTHER")
    \/ \E d \in Known : NotifyErrorReport(d)
    \/ \E d \in Known : Unsolicited(d, Notification("CHALLENGE", NoState))
    \/ \E d \in Known : NotifyChallenge(d)
    \/ \E d \in Known : NotifyConfig(d)
    \/ \E d \in Known : NotifyStatus(d)
    \/ \E d \in Known : NotifyKeyturnerStates(d)

ErrorSpec == SessionInit /\ [][ErrorNext]_vars

\* ---------------------------------------------------------------- battery
\* a & b and a >> k on bytes.
And(a, b) ==
    Bit(a, 0) * Bit(b, 0) + 2 * Bit(a, 1) * Bit(b, 1) + 4 * Bit(a, 2) * Bit(b, 2)
      + 8 * Bit(a, 3) * Bit(b, 3) + 16 * Bit(a, 4) * Bit(b, 4)
      + 32 * Bit(a, 5) * Bit(b, 5) + 64 * Bit(a, 6) * Bit(b, 6)
      + 128 * Bit(a, 7) * Bit(b, 7)
ShiftRight(a, k) == a \div (2 ^ k)
bool(n) == n # 0

\* The three properties of Nuki, as functions of last_state["critical_battery_state"].
is_battery_critical(state) == bool(And(state, 1))
is_battery_charging(state) == bool(And(state, 2))
battery_percentageUnscaled(state) == ShiftRight(And(state, 252), 2)
battery_percentage(state) == ShiftRight(And(state, 252), 2) * 2

\* Any byte is the critical_battery_state of the last KEYTURNER_STATES.
BatteryInit ==
    /\ Built(Devices)
    /\ NoBeacon
    /\ NotStarting
    /\ NoStartFailure
    /\ NoTraffic
    /\ NoError
    /\ critical_battery_state \in 0..255
    /\ battery = NotRead

ReadBattery ==
    /\ ~battery.read
    /\ battery' = [read |-> TRUE,
                   critical |-> is_battery_critical(critical_battery_state),
                   charging |-> is_battery_charging(critical_battery_state),
                   percentage |-> battery_percentage(critical_battery_state)]
    /\ UNCHANGED <<queueVars, scanVars, workerVars, taskVars, lastStarted, begun,
                   scannerFaulty, resets, credVars, pairVars, linkVars, callVars,
                   nukiVars, obsVars, lockVars, beaconVars, startVars, codecVars,
                   critical_battery_state, errorReported, auxVars>>

BatteryNext == ReadBattery
BatterySpec == BatteryInit /\ [][BatteryNext]_vars

\* ------------------------------------------------------------------ codec
\* A command code and a payload are framed for one of the two characteristics
\* of device A, the frame may be altered on the (unencrypted) pairing
\* characteristic, and the first lines of the notification handler decode it.
SampleBytes == {0, 1, 255}
RECURSIVE BytesOfLength(_)
BytesOfLength(n) ==
    IF n = 0 THEN {<<>>}
    ELSE {<<b>> \o p : b \in SampleBytes, p \in BytesOfLength(n - 1)}
Payloads == UNION {BytesOfLength(n) : n \in 0..MaxLen}
RECURSIVE Repeat(_, _)
Repeat(b, n) == IF n = 0 THEN <<>> ELSE <<b>> \o Repeat(b, n - 1)
Nonces == {Repeat(b, 24) : b \in {0, 1}}

CodecInit ==
    /\ Built(Devices)
    /\ NoBeacon
    /\ NotStarting
    /\ NoStartFailure
    /\ NoReading
    /\ NoError
    /\ plain \in [code : {NukiCommand[c] : c \in CommandNames}, payload : Payloads]
    /\ wire = NoWire
    /\ parsed = NotParsed

CodecUnchanged ==
    UNCHANGED <<queueVars, scanVars, workerVars, taskVars, lastStarted, begun,
                scannerFaulty, resets, credVars, pairVars, linkVars, callVars,
                nukiVars, obsVars, lockVars, beaconVars, startVars, batteryVars,
                errorReported, auxVars, plain>>

SendPlain ==
    /\ wire = NoWire
    /\ wire' = [char |-> "pairing",
                bytes |-> _prepare_command(plain.code, plain.payload),
                altered |-> FALSE]
    /\ UNCHANGED parsed
    /\ CodecUnchanged

SendEncrypted(nonce) ==
    /\ wire = NoWire
    /\ wire' = [char |-> "ble",
                bytes |-> _encrypt_command(auth_id["A"], shared_key["A"], nonce,
                                           plain.code, plain.payload),
                altered |-> FALSE]
    /\ UNCHANGED parsed
    /\ CodecUnchanged

\* The frame on the wire is the one that was sent.
Intact == ~wire.altered

Tamper(i, b) ==
    /\ wire.char = "pairing"
    /\ Intact
    /\ parsed = NotParsed
    /\ i <= Len(wire.bytes) - 2
    /\ b # wire.bytes[i]
    /\ wire' = [wire EXCEPT !.bytes[i] = b, !.altered = TRUE]
    /\ UNCHANGED parsed
    /\ CodecUnchanged

\* _notification_handler, up to `command, data = ...`: a frame of the pairing
\* characteristic is parsed as it is, any other is decrypted first.
Decode ==
    /\ wire # NoWire
    /\ parsed = NotParsed
    /\ parsed' =
         IF wire.char = "pairing"
         THEN _parse_command(device_type["A"], wire.bytes)
         ELSE LET uncrypted == _decrypt_command(shared_key["A"], wire.bytes)
              IN IF uncrypted.tag = "exception" THEN uncrypted
                 ELSE _parse_command(device_type["A"], uncrypted.data.value)
    /\ UNCHANGED wire
    /\ CodecUnchanged

CodecNext ==
    \/ SendPlain
    \/ \E nonce \in Nonces : SendEncrypted(nonce)
    \/ \E i \in 1..(MaxLen + 2), b \in SampleBytes : Tamper(i, b)
    \/ Decode

CodecSpec == CodecInit /\ [][CodecNext]_vars

\* --------------------------------------------- frames the handler drops
\* A code that NukiCommand does not have.
UnknownCode == CHOOSE code \in 0..31 : ~IsCommand(code)

\* What the lock (or whoever writes to the link) puts on the service
\* characteristic: commands with a branch in the handler, one without, and a
\* code outside the enumeration.
DropCodes ==
    {NukiCommand["CHALLENGE"], NukiCommand["STATUS"], NukiCommand["ERROR_REPORT"],
     NukiCommand["REQUEST_DATA"], UnknownCode}

\* The bytes of a frame that get altered on the way: in the nonce, the auth_id,
\* the length, the authenticator and the encrypted message.
AlteredAt == {1, 25, 29, 31, 47}

\* The frames of these codes as the lock encrypts them, with the auth_id and
\* the key it shares with the bridge.
ServicePayloads ==
    {p \in Payloads : Len(p) \in {0, 1, MaxLen} /\ \A i \in 1..Len(p) : p[i] \in {0, 1}}
ServiceFrames ==
    {[code |-> code, payload |-> payload,
      bytes |-> _encrypt_command("id0", Derive("pk0"), Repeat(0, 24), code, payload)] :
        code \in DropCodes, payload \in ServicePayloads}

\* The frames of the pairing characteristic, which are not encrypted.
PairingFrames ==
    {[code |-> code, payload |-> payload, bytes |-> _prepare_command(code, payload)] :
        code \in DropCodes \ {NukiCommand["ERROR_REPORT"]},
        payload \in ServicePayloads}

ServiceNotification(frame) ==
    /\ wire = NoWire
    /\ connected["A"]
    /\ replies["A"] = <<>>
    /\ auth_id["A"] = "id0"
    /\ shared_key["A"] = Derive("pk0")
    /\ plain' = [code |-> frame.code, payload |-> frame.payload]
    /\ wire' = [char |-> IF frame \in ServiceFrames THEN "ble" ELSE "pairing",
                bytes |-> frame.bytes, altered |-> FALSE]
    /\ parsed' = NotParsed
    /\ UNCHANGED <<queueVars, scanVars, workerVars, taskVars, lastStarted, begun,
                   scannerFaulty, resets, credVars, pairVars, linkVars, callVars,
                   nukiVars, obsVars, lockVars, beaconVars, startVars, batteryVars,
                   errorReported, auxVars>>

Altered(i, b) ==
    /\ wire.char = "ble"
    /\ Intact
    /\ i <= Len(wire.bytes)
    /\ b # wire.bytes[i]
    /\ wire' = [wire EXCEPT !.bytes[i] = b, !.altered = TRUE]
    /\ UNCHANGED parsed
    /\ CodecUnchanged

\* `command, data = ...` of the handler for the frame w.
Decoded(w) ==
    IF w.char = "pairing"
    THEN _parse_command(device_type["A"], w.bytes)
    ELSE LET uncrypted == _decrypt_command(shared_key["A"], w.bytes)
         IN IF uncrypted.tag = "exception" THEN uncrypted
            ELSE _parse_command(device_type["A"], uncrypted.data.value)

\* The commands the if/elif chain of the handler has a branch for.
Branches ==
    {"ERROR_REPORT", "KEYTURNER_STATES", "CONFIG", "PUBLIC_KEY", "AUTH_ID",
     "STATUS", "CHALLENGE"}

HasBranch(result) == result.tag = "return" /\ result.command \in Branches

\* What the branch gets: of an ERROR_REPORT the code, as the branch compares it.
BranchInput(result) ==
    Notification(result.command,
                 IF result.command = "ERROR_REPORT"
                 THEN ErrorReport(IF result.data.value = <<16>>
                                  THEN "NOT_PAIRING" ELSE "OTHER")
                 ELSE NoState)

\* _notification_handler: an
\* exception of the decryption or of the parsing ends the handler, a command
\* without a branch falls through the chain, any other is handled by its branch.
HandleFrame(d) ==
    /\ wire # NoWire
    /\ parsed' = Decoded(wire)
    /\ wire' = NoWire
    /\ replies' = IF HasBranch(parsed')
                  THEN [replies EXCEPT ![d] = Append(@, BranchInput(parsed'))]
                  ELSE replies
    /\ UNCHANGED <<queueVars, scanVars, workerVars, taskVars, lastStarted, begun,
                   scannerFaulty, resets, credVars, pairVars, linkVars, callVars,
                   nukiVars, obsVars, lockCount, lockState, outstanding, timedOut,
                   beaconVars, startVars, batteryVars, errorReported, auxVars,
                   plain>>

DropInit == Listening("A")

DropNext ==
    \/ \E frame \in ServiceFrames \cup PairingFrames : ServiceNotification(frame)
    \/ \E i \in AlteredAt, b \in {0, 1} : Altered(i, b)
    \/ HandleFrame("A")
    \/ get_config("A")
    \/ NotifyChallenge("A")
    \/ NotifyStatus("A")
    \/ NotifyErrorReport("A")

DropSpec == DropInit /\ [][DropNext]_vars

\* ================================================================ properties
Connected == {d \in Devices : connected[d]}
Workers == {w \in WorkerIds : workerPc[w] # "none"}
Executing == {w \in WorkerIds : workerPc[w] = "run"}
Queued == {queue[i] : i \in 1..Len(queue)}

\* C1: in every reachable state the adapter is not scanning while some device
\* holds an open connection, whatever the outcomes of scan stops and connects.
C1_NoScanWhileConnected == ~(adapterScanning /\ Connected # {})

C3_ReturnAfterStatus ==
    (IsLockOp(lastReturn.op) /\ lastReturn.how = "done") => lastReturn.status

\* C4: an operation whose write failed on every one of the `retry` attempts
\* does not return normally.
C4_ExhaustedRaises ==
    lastReturn.sent = "unsent" => lastReturn.how = "raised"

\* C5: once command_timeout has elapsed on a request nothing answered, the
\* session awaits no reply, the device is disconnected and the adapter is free.
C5_TimeoutAborts ==
    \A d \in Devices :
        timedOut[d] => /\ challenge[d] = "none"
                       /\ ~connected[d]

\* C6: at most one task is being executed at any time, and there is at most one
\* worker however often start is called.
C6_OneWorkerOneTask ==
    /\ Cardinality(Workers) <= 1
    /\ Cardinality({workerTask[w] : w \in Executing}) <= 1
    /\ \A w \in WorkerIds : workerTask[w] # 0 => w \in Workers

\* C6 witness: the queue is started, its worker executes a task and another
\* submitted task waits.
C6_Witness ==
    /\ hasQueue
    /\ Executing # {}
    /\ queue # <<>>

\* C7: the worker starts the tasks in the order add_task enqueued them (task ids
\* are given in enqueue order): the queue is in ascending order of id and holds
\* only tasks enqueued after the one started most recently.
C7_StartedInOrder ==
    \A i \in 1..Len(queue) :
        /\ queue[i] > lastStarted
        /\ \A j \in 1..(i - 1) : queue[j] < queue[i]

\* C7 witness: the second of two tasks for the same device is started after the
\* first.
C7_Witness ==
    /\ lastStarted = 2
    /\ {1, 2} \subseteq LiveTasks
    /\ tasks[1].dev = tasks[2].dev
    /\ tasks[1].fut # Pending

\* C8: every task submitted with add_task is eventually executed and its caller
\* resumed, and the caller gets the value the task returned, or the exception
\* it raised.
C8_Delivered ==
    lastReturn.op = "add_task" =>
        /\ lastReturn.body.tag = "return" =>
             /\ lastReturn.how = "done"
             /\ lastReturn.got = Result(lastReturn.body.val)
        /\ lastReturn.body.tag = "raise" =>
             /\ lastReturn.how = "raised"
             /\ lastReturn.got = Exception(lastReturn.body.val)

C8_EveryTaskAnswered ==
    /\ []C8_Delivered
    /\ \A t \in 1..MaxTasks : (t \in LiveTasks) ~> (t \notin LiveTasks)

\* C8 witness: a caller has got the exception its task raised.
C8_Witness ==
    /\ lastReturn.op = "add_task"
    /\ lastReturn.how = "raised"
    /\ lastReturn.got \in {Exception(e) : e \in Errors}

\* C9: whenever the observer is invoked for a device, the device has a
\* last_state and a non-empty config.
C9_ObserverSeesStateAndConfig ==
    \A d \in Devices :
        lastSeen[d].path # "none" =>
            HasStateAndConfig(lastSeen[d].state, lastSeen[d].config)

C11_RefetchedConfigSeen ==
    \A d \in Devices :
        (lastSeen[d].path = "KEYTURNER_STATES" /\ lastSeen[d].chained)
            => lastSeen[d].config.count >= lastSeen[d].state.count

\* C13: a CHALLENGE or a CONFIG that arrives while no request of the session is
\* outstanding is dropped: handling it queues no frame and changes nothing the
\* session stores.
C13_StrayDropped ==
    [][\A d \in Devices :
          (~outstanding[d] /\ (NotifyChallenge(d) \/ NotifyConfig(d)))
              => UNCHANGED <<queue, tasks, nukiVars>>]_vars

\* The request frame of the awaiting operation c is the last frame written:
\* the worker has begun no later task, or has begun the next one and is still
\* at it.
RequestIsLatest(c) ==
    \/ lastStarted = c.task
    \/ /\ lastStarted = c.task + 1
       /\ \E w \in Executing : workerTask[w] = lastStarted

\* C16: when lock, unlock or unlatch returns on a device with a known state,
\* lock_state reads LOCKING, UNLOCKING or UNLATCHING, written before any frame
\* after the operation's request went out (so before the lock can report on the
\* action); from then on lock_state changes only when a KEYTURNER_STATES
\* notification is handled, to the state the lock reports, or when another such
\* operation returns.
C16_OptimisticUntilReported ==
    [][/\ \A c \in calls :
            (ReturnFromLock(c) /\ lastReturn'.how = "done") =>
                /\ last_state'[c.dev].lock_state =
                       (CASE c.op = "lock"   -> "LOCKING"
                          [] c.op = "unlock" -> "UNLOCKING"
                          [] OTHER           -> "UNLATCHING")
                /\ RequestIsLatest(c)
       /\ \A d \in Devices :
            last_state'[d].lock_state # last_state[d].lock_state =>
                \/ \E c \in calls : c.dev = d /\ ReturnFromLock(c)
                \/ /\ NotifyKeyturnerStates(d)
                   /\ last_state'[d].lock_state = Head(replies[d]).data.lock_state
      ]_vars

\* C16 witness: unlock has returned, lock_state reads UNLOCKING and the lock's
\* STATUS and KEYTURNER_STATES for the action are on their way.
C16_Witness ==
    /\ lastReturn.op = "unlock"
    /\ lastReturn.how = "done"
    /\ last_state["A"].lock_state = "UNLOCKING"
    /\ Len(replies["A"]) = 2

\* C17: whenever the worker is blocked in the get() without timeout, no device
\* is connected and the adapter is scanning.
C17_IdleWorkerReleased ==
    \A w \in WorkerIds :
        workerPc[w] = "get" => (Connected = {} /\ adapterScanning)

\* C18: the observer is told of the changes in the order they were stored: no
\* KEYTURNER_STATES or CONFIG handler tells the observer of its change while
\* the handler of an earlier state is still to tell it.
C18_NotifiedInOrder ==
    [][\A d \in Devices :
          ((NotifyKeyturnerStates(d) \/ NotifyConfig(d)) /\ lastSeen'[d] # lastSeen[d])
              => ~ \E c \in calls : c.op = "keyturner_states" /\ c.dev = d]_vars

HandlerEnds(d) ==
    \/ /\ NotifyKeyturnerStates(d)
       /\ calls' = calls
       /\ last_state'[d] = Head(replies[d]).data
    \/ \E c \in calls : c.dev = d /\ ResumeKeyturnerStates(c)

C12_CredentialsKept ==
    [][\A d \in Devices :
         (auth_id[d] # "none" /\ nuki_public_key[d] # "none"
                              /\ shared_key[d] # "none")
            => /\ auth_id'[d] = auth_id[d]
               /\ nuki_public_key'[d] = nuki_public_key[d]
               /\ shared_key'[d] = shared_key[d]]_vars

\* C14: a pair() whose connection to the lock succeeded goes on to the exchange
\* (REQUEST_DATA(PUBLIC_KEY) is handed to the writer, and the further frames
\* follow the lock's replies): it does not end with an exception.
C14_PairRunsExchange ==
    \A d \in Devices :
        (lastReturn.op = "pair" /\ lastReturn.dev = d /\ connected[d])
            => lastReturn.how # "raised"

\* C15: when a handler receives an ERROR_REPORT with a code other than
\* NOT_PAIRING while a pairing is in progress, the pairing is over after the
\* handler: the callback is no longer awaited.
C15_ErrorEndsPairing ==
    [][\A d \in Devices :
         (/\ NotifyErrorReport(d)
          /\ pairing_callback[d]
          /\ Head(replies[d]).data.code # "NOT_PAIRING")
            => ~pairing_callback'[d]]_vars

\* C21 as stated: an advertisement of a device is ignored (no task queued, no
\* client handle replaced, nothing recorded) whenever the device's previous
\* qualifying advertisement was at most one second before.
Ignored ==
    UNCHANGED <<queueVars, taskVars, linkVars, calls, replies, last_ibeacon>>

C21_IgnoredAfterAnyAdvert ==
    [][\A d \in Devices : \A e \in BOOLEAN :
         (/\ Advertisement(d, e)
          /\ lastAdvert[d].at # Never
          /\ now - lastAdvert[d].at <= Second) => Ignored]_vars

\* C21, amended: an advertisement is ignored exactly when the device's last
\* accepted advertisement was at most one second before, so that two accepted
\* advertisements are more than a second apart; of two advertisements half a
\* second apart of which the first was accepted, only the first queues a task.
C21_IgnoredAfterAccepted ==
    [][\A d \in Devices : \A e \in BOOLEAN : Advertisement(d, e) =>
         /\ (last_ibeacon[d] # Never /\ now - last_ibeacon[d] <= Second)
               => Ignored
         /\ (last_ibeacon[d] # Never /\ now - last_ibeacon[d] > Second)
               => last_ibeacon'[d] = now
         /\ (lastAdvert[d].accepted /\ now - lastAdvert[d].at = 1)
               => Ignored
         /\ tasks' # tasks
               => (last_ibeacon[d] = Never \/ now - last_ibeacon[d] > Second)]_vars

C21_Witness ==
    /\ lastAdvert["A"] = [at |-> 1, accepted |-> FALSE]
    /\ last_ibeacon["A"] = 0
    /\ now = 1
    /\ nextTask = 2

\* C22: start_scanning returns on the first successful start, tries again after
\* each failure, and raises only when the eighth attempt has failed.
C22_RaisesAfterEighth ==
    /\ scanResult = "started" =>
          /\ startOutcomes[attempt]
          /\ \A i \in 1..(attempt - 1) : ~startOutcomes[i]
    /\ scanResult = "raised" =>
          /\ attempt = ATTEMPTS
          /\ \A i \in 1..ATTEMPTS : ~startOutcomes[i]

\* C23: a frame of the pairing characteristic whose trailing CRC does not match
\* its code and payload is rejected by the handler's decoding: an exception
\* (CrcMismatch in the claim) comes out of it and no command for the handler to
\* act on.
C23_TamperedRejected ==
    (parsed # NotParsed /\ wire.char = "pairing" /\ ~CrcMatches(wire.bytes))
        => parsed.tag = "exception"

\* C24 as stated: decoding the frame made from any known code c and payload p,
\* on either characteristic, gives c and p.
Unaltered == wire.char = "ble" \/ Intact

C24_RoundTripAll ==
    (parsed # NotParsed /\ Unaltered)
        => /\ parsed.tag = "return"
           /\ parsed.command = NameOf(plain.code)
           /\ parsed.data.value = plain.payload

\* C24, amended: on either characteristic, CHALLENGE and PUBLIC_KEY come back
\* with their payload; a STATUS or ERROR_REPORT that decodes comes back with
\* its first byte; whenever a command comes out it is the one framed; and the
\* codes only the bridge sends come back as (None, None).
PayloadCommands == {"CHALLENGE", "PUBLIC_KEY"}
Inbound ==
    {"CHALLENGE", "PUBLIC_KEY", "KEYTURNER_STATES", "CONFIG", "AUTH_ID",
     "STATUS", "ERROR_REPORT"}

C24_RoundTripOfReplies ==
    (parsed # NotParsed /\ Unaltered) =>
        LET c == NameOf(plain.code) IN
        /\ c \in PayloadCommands
              => /\ parsed.tag = "return"
                 /\ parsed.command = c
                 /\ parsed.data.value = plain.payload
        /\ (parsed.tag = "return" /\ c \in Inbound)
              => parsed.command = c
        /\ (parsed.tag = "return" /\ c \in {"STATUS", "ERROR_REPORT"})
              => parsed.data.value = <<SignedByte(plain.payload[1])>>
        /\ c \notin Inbound
              => parsed = Returned("None", "None", <<>>)

C24_Witness ==
    /\ wire.char = "ble"
    /\ plain = [code |-> 4, payload |-> <<1, 255>>]
    /\ parsed = Returned("CHALLENGE", "nonce", <<1, 255>>)

\* C25: for every byte b of critical_battery_state, is_battery_critical is bit 0
\* of b, is_battery_charging is bit 1 of b, and battery_percentage is twice the
\* integer quotient of b by 4.
C25_BatteryFields ==
    battery.read =>
        /\ battery.critical = (critical_battery_state % 2 = 1)
        /\ battery.charging = ((critical_battery_state \div 2) % 2 = 1)
        /\ battery.percentage = 2 * (critical_battery_state \div 4)

\* b = 0b01011001 gives critical, not charging, 44 percent.
C25_Witness ==
    /\ critical_battery_state = 89
    /\ battery = [read |-> TRUE, critical |-> TRUE, charging |-> FALSE,
                  percentage |-> 44]

\* C26: when the CHALLENGE that answers the written REQUEST_DATA(CHALLENGE) of a
\* lock action a is handled, the frame handed to the writer is LOCK_ACTION with
\* the action a (and the nonce of the challenge), whatever other operations
\* were begun for the device in between.
C26_ChallengeGetsLockAction ==
    [][\A d \in Devices : \A c \in calls :
         (/\ NotifyChallenge(d)
          /\ c.dev = d
          /\ IsLockOp(c.op)
          /\ tasks[c.task].state = "written")
            => /\ nextTask' = nextTask + 1
               /\ tasks'[nextTask].frame
                     = Frame("LOCK_ACTION", ChallengeOf(c.op, c.arg))]_vars

\* C27: the handler of every KEYTURNER_STATES notification stores the received
\* snapshot as last_state, whatever reply is awaited and whatever last_state
\* and config held before.
C27_StateReplaced ==
    [][\A d \in Devices :
         NotifyKeyturnerStates(d) => last_state'[d] = Head(replies[d]).data]_vars

C29_ErrorEndsExchange ==
    [][\A d \in Devices :
         (NotifyChallenge(d) /\ errorReported[d])
            => UNCHANGED <<queueVars, taskVars>>]_vars

\* C30: the task of _send_data makes at most `retry` attempts (connect, then
\* write) for its frame; an attempt is followed by another only when it failed
\* and was not the last; the first successful write ends the task, which then
\* is neither executed nor queued again; and the task ends without an
\* exception, also when the write succeeds only on the third attempt.
C30_SendAttempts ==
    /\ [](\A w \in WorkerIds :
            (workerPc[w] = "run" /\ tasks[workerTask[w]].kind = "send")
                => workerTry[w] \in 1..retry)
    /\ [](\A t \in DOMAIN tasks :
            tasks[t].state = "written"
                => /\ t \notin Queued
                   /\ \A w \in WorkerIds : workerTask[w] # t
                   /\ tasks[t].fut = Result("None"))
    /\ [][\A w \in WorkerIds : WorkerSendAttempt(w) =>
            LET t == workerTask[w] IN
            \/ /\ workerPc'[w] = "run"
               /\ workerTry[w] < retry
               /\ workerTry'[w] = workerTry[w] + 1
               /\ UNCHANGED <<tasks, replies, lockState, outstanding>>
            \/ /\ workerPc'[w] = "top"
               /\ workerTask'[w] = 0
               /\ t \in DOMAIN tasks' =>
                     /\ tasks'[t].fut = Result("None")
                     /\ tasks'[t].state = "unsent" => workerTry[w] = retry]_vars

\* C30 witness: two attempts of a write have failed with the device out of
\* reach and the third, the last that retry = 3 allows, is about to be made.
C30_Witness ==
    /\ workerPc[1] = "run"
    /\ tasks[workerTask[1]].kind = "send"
    /\ workerTry[1] = 3
    /\ ~connected[tasks[workerTask[1]].dev]

\* ---------------------------------------------------------------- C31
\* The step enqueues exactly one task, of this kind and with this frame, for d.
SubmitsOnly(d, kind, frame) ==
    /\ nextTask' = nextTask + 1
    /\ queue' = Append(queue, nextTask)
    /\ tasks'[nextTask].kind = kind
    /\ tasks'[nextTask].dev = d
    /\ tasks'[nextTask].frame = frame

SubmitsNothing == nextTask' = nextTask /\ queue' = queue

\* What lines 237-240 enqueue for d: update_state, else get_config, else nothing.
Decides(d, event) ==
    IF ~last_state[d].present \/ event
    THEN SubmitsOnly(d, "send", Frame("REQUEST_DATA", "KEYTURNER_STATES"))
    ELSE IF ~config[d].present
    THEN /\ SubmitsOnly(d, "send", Frame("REQUEST_DATA", "CHALLENGE"))
         /\ challenge'[d] = "REQUEST_CONFIG"
    ELSE SubmitsNothing

\* C31 as stated: the handling of an advertisement of a device of unknown kind
\* enqueues the connect task only, so that the handler, once that task is over,
\* enqueues nothing more.
C31_OnlyConnect ==
    [][\A c \in calls : BeaconIdentified(c) => SubmitsNothing]_vars

\* C31, amended: on an accepted advertisement a device of unknown kind gets
\* exactly the connect task first; then (at once for a known kind, after the
\* connect task for an unknown one) exactly an update_state is enqueued if
\* last_state is absent or the event flag is set, otherwise exactly a get_config
\* if the config is empty, otherwise nothing.
C31_BeaconTasks ==
    [][/\ \A d \in Known, e \in BOOLEAN :
            _detected_ibeacon(d, e) =>
                IF device_type[d] = "none"
                THEN SubmitsOnly(d, "conn", NoFrame)
                ELSE Decides(d, e)
       /\ \A c \in calls :
            BeaconIdentified(c) => Decides(c.dev, c.arg = Flag(TRUE))]_vars

\* The handler of a device of unknown kind went on after the connect task,
\* which failed, and has enqueued the update_state.
C31_Witness ==
    \E c \in calls :
        /\ c.op = "beacon"
        /\ c.pc = "await"
        /\ device_type[c.dev] = "none"
        /\ c.task \in LiveTasks
        /\ tasks[c.task].frame = Frame("REQUEST_DATA", "KEYTURNER_STATES")

\* ---------------------------------------------------------------- C32
\* Task t has been executed: its future is set, or its caller has resumed.
Executed(t) == t \in LiveTasks => tasks[t].fut # Pending

\* Task t waits while a task enqueued before it has raised.
WaitsAfterRaise(t) ==
    /\ t \in LiveTasks
    /\ tasks[t].fut = Pending
    /\ \E u \in LiveTasks : u < t /\ tasks[u].fut.tag = "exception"

\* C32: a task that raises does not stop the worker: the exception is set on
\* the submitter's future, the worker is back at the top of its loop, and every
\* task enqueued after the one that raised is executed.
C32_WorkerGoesOn ==
    /\ [][\A w \in WorkerIds :
            (WorkerRunCall(w) /\ tasks[workerTask[w]].body.tag = "raise") =>
                /\ tasks'[workerTask[w]].fut = Exception(tasks[workerTask[w]].body.val)
                /\ workerPc'[w] = "top"]_vars
    /\ \A t \in 1..MaxTasks : WaitsAfterRaise(t) ~> Executed(t)

\* C32 witness: a task enqueued after one that raised has been executed.
C32_Witness ==
    \E u \in LiveTasks, t \in LiveTasks :
        /\ u < t
        /\ tasks[u].fut.tag = "exception"
        /\ tasks[t].fut.tag = "result"

\* ---------------------------------------------------------------- C33
\* C33: stop_scanning does not raise to its caller when the stop times out,
\* fails with a bus error or the scan was never started; the worker that called
\* it goes on to run the task it took from the queue.
C33_StopNeverRaises ==
    /\ [](lastStop # "raised")
    /\ [][\A w \in WorkerIds :
            (workerPc[w] = "got" /\ workerPc'[w] # "got") =>
                /\ workerPc'[w] = "run"
                /\ workerTask'[w] = workerTask[w]
                /\ workerTask[w] \in LiveTasks
                /\ ~scanning']_vars

\* C33 witness: the stop failed (the adapter still scans), stop_scanning
\* returned and the worker is about to run its task.
C33_Witness ==
    /\ lastStop = "returned"
    /\ adapterScanning
    /\ \E w \in WorkerIds : workerPc[w] = "run" /\ workerTask[w] \in LiveTasks

\* ---------------------------------------------------------------- C34
\* The encrypted part of the frame w, and whether its authenticator fits.
Sealed(w) == Slice(w.bytes, 30, 30 + FromLE2(w.bytes[29], w.bytes[30]))
FailsDecryption(w) ==
    LET nonce == Slice(w.bytes, 0, 24)
    IN /\ w.char = "ble"
       /\ \/ Len(Sealed(w)) < 16
          \/ SubSeq(Sealed(w), 1, 16)
               # Authenticator(shared_key["A"], nonce,
                               BoxMessage(shared_key["A"], nonce, Sealed(w)))

\* The command code of the frame w (that decrypts, on the service characteristic).
CodeOf(w) ==
    LET message == BoxMessage(shared_key["A"], Slice(w.bytes, 0, 24), Sealed(w))
    IN IF w.char = "ble" THEN FromLE2(message[5], message[6])
       ELSE FromLE2(w.bytes[1], w.bytes[2])

Undeliverable(w) ==
    \/ FailsDecryption(w)
    \/ ~IsCommand(CodeOf(w))
    \/ NameOf(CodeOf(w)) \notin Branches

\* C34: a notification of the service characteristic that fails the
\* authenticated decryption, and a frame whose command code is unknown or has
\* no branch in the handler, is dropped: last_state, config, the credentials and
\* the awaited reply stay as they are, no notification is left to be handled
\* and no frame is sent.
C34_Dropped ==
    [][(wire # NoWire /\ wire' = NoWire /\ Undeliverable(wire)) =>
          UNCHANGED <<nukiVars, credVars, queueVars, taskVars, replies, callVars,
                      outstanding, errorReported, pairVars>>]_vars

\* C34 witness: the handler has dropped an altered frame.
C34_Witness ==
    /\ wire = NoWire
    /\ parsed = Undecoded("CryptoError")
    /\ replies["A"] = <<>>

\* ---------------------------------------------------------------- C35
\* C35: the handler of AUTH_ID stores the auth_id of the message and, with a
\* shared key, sets AUTH_ID_CONFIRM as the awaited exchange and sends the
\* AUTH_ID_CONFIRM frame, whatever the authenticator of the message is.
C35_AuthIdAccepted ==
    [][\A d \in Known :
         (Arrived(d, "AUTH_ID") /\ replies'[d] = Tail(replies[d]) /\ connected'[d]) =>
            /\ auth_id'[d] = Head(replies[d]).data.auth_id
            /\ shared_key[d] # "none" =>
                 /\ challenge'[d] = "AUTH_ID_CONFIRM"
                 /\ SubmitsOnly(d, "send", Frame("AUTH_ID_CONFIRM", "hmac"))]_vars

\* C35 witness: the id of a forged AUTH_ID is stored and its confirmation is
\* on its way.
C35_Witness ==
    \E d \in Known :
        /\ auth_id[d] = ForgedAuthId.data.auth_id
        /\ challenge[d] = "AUTH_ID_CONFIRM"
        /\ \E t \in LiveTasks :
              tasks[t].dev = d /\ tasks[t].frame = Frame("AUTH_ID_CONFIRM", "hmac")

\* ---------------------------------------------------------------- C36
\* The step calls add_task: a task is queued, or the call raised on the queue
\* that is not there.
CallsAddTask ==
    \/ nextTask' # nextTask
    \/ lastReturn' # lastReturn /\ lastReturn'.got = Exception("AttributeError")

\* C36: whenever add_task is called the task queue has been started (the queue
\* exists and its worker runs), whichever way the program was started.
C36_QueueStarted ==
    [][CallsAddTask => (hasQueue /\ Workers # {})]_vars

\* ---------------------------------------------------------------- C37
\* C37: when lock, unlock or unlatch returns and none of the attempts to write
\* its request succeeded, last_state.lock_state is what it was before.
C37_UnsentLeavesState ==
    [][\A c \in calls :
         (ReturnFromLock(c) /\ tasks[c.task].state = "unsent") =>
             last_state'[c.dev].lock_state = last_state[c.dev].lock_state]_vars

\* ---------------------------------------------------------------- C38
\* C38: the lock_state of a device of kind OPENER whose state is known is a
\* member of OpenerState, in every reachable state.
C38_OpenerStateMember ==
    \A d \in Devices :
        (device_type[d] = "OPENER" /\ last_state[d].present) =>
            last_state[d].lock_state \in OpenerState

\* ---------------------------------------------------------------- C39
\* C39: a client handle that an advertisement replaces is not connected, so
\* that no connection is ever left open on a handle the session no longer has.
C39_NeverOrphaned ==
    \A d \in Devices : ~orphaned[d]

\* ---------------------------------------------------------------- C40
\* C40: _check_token returns True for one ctoken at most once, however much
\* time passes and whatever the purge of the tokens older than 60 s removes.
C40_AcceptedOnce ==
    \A c \in CTokens : accepted[c] <= 1

\* A ctoken was accepted, then purged from the store, then presented again
\* and refused.
C40_Witness ==
    \E c \in CTokens :
        /\ accepted[c] = 1
        /\ checked = [result |-> "False", purged |-> c]

====
